---- MODULE Spec2Model ----
(***************************************************************************)
(* The dashboard client of AgenticVisualization: row store, cross-filter   *)
(* state, per-card category selections, the aggregation that turns a chart *)
(* recipe into plotted series, and the event handlers that mutate them.    *)
(*                                                                         *)
(* JavaScript values are held as follows.                                  *)
(*   - a CSV cell is a string; a property that is absent from an object    *)
(*     reads as Undefined;                                                 *)
(*   - a row is a function from the column names it has to strings;        *)
(*   - an object used as a map (activeFilters, cardCategorySelections) is  *)
(*     a function whose DOMAIN is the set of keys it has;                  *)
(*   - an argument that may be null is <<>> (null) or <<v>> (the value v); *)
(*   - a JS number that may be NaN is [nan |-> BOOLEAN, n |-> Int];        *)
(*   - an average, which the code rounds to two decimals, is held in       *)
(*     hundredths (2.5 is 250); counts and sums are held in units.         *)
(***************************************************************************)
EXTENDS Integers, Sequences, FiniteSets, TLC

VARIABLES
  allRows,                \* part_000:33   let allRows = []
  dashboardRecipes,       \* part_000:34   let dashboardRecipes = []
  activeFilters,          \* part_000:35   let activeFilters = {}
  cardCategorySelections, \* part_000:37   let cardCategorySelections = {}
  charts,                 \* what each card's plot-div currently shows
  selectors,              \* the category selector of each card that has one
  filterBar,              \* elements.filterBar / elements.filterChips
  page,                   \* loading indicator, grid content, fetch and poll progress
  lastEvent,              \* history: the handler that ran last, and whether it returned early
  clickRun,               \* history: a run of consecutive clicks on one plotted element
  selectionEdits,         \* history: how many pill and "All" clicks have changed a selection
  aggIn,                  \* arguments of a direct call of the aggregation functions
  aggOut,                 \* result of that call
  chat,                   \* server.js: one /api/chat request and what the handler did with it
  server,                 \* server.js:88 dashboardRecipes, dashboardReady and the progress
                          \* of generateDashboard
  chatBox                 \* part_000:517 the chat input, the send button, the /api/chat
                          \* requests in flight and the message added last

vars == <<allRows, dashboardRecipes, activeFilters, cardCategorySelections, charts,
          selectors, filterBar, page, lastEvent, clickRun, selectionEdits,
          aggIn, aggOut, chat, server, chatBox>>

-----------------------------------------------------------------------------
(* JavaScript value helpers *)

Undefined == "<undefined>"

Null == <<>>

Some(v) == <<v>>

\* obj[key] for an object held as a function
Get(obj, key) == IF key \in DOMAIN obj THEN obj[key] ELSE Undefined

\* delete obj[key]
Delete(obj, key) == [k \in (DOMAIN obj) \ {key} |-> obj[k]]

\* obj[key] = val
Put(obj, key, val) == [k \in (DOMAIN obj) \cup {key} |-> IF k = key THEN val ELSE obj[k]]

EmptyObject == [k \in {} |-> Undefined]

\* v is falsy: used by `row[col] || "Unknown"`
Falsy(v) == v = Undefined \/ v = ""

\* The numeric strings of the data, with the number each denotes
NumericLiterals == [s \in {"1", "2", "3", "4", "5", "-3", "-2"} |->
  CASE s = "1" -> 1 [] s = "2" -> 2 [] s = "3" -> 3 [] s = "4" -> 4 [] s = "5" -> 5
    [] s = "-3" -> 0 - 3 [] s = "-2" -> 0 - 2]

NaN == [nan |-> TRUE, n |-> 0]

\* Number(v): undefined and unparsable text give NaN, the empty string gives 0
Number(v) ==
  IF v = Undefined THEN NaN
  ELSE IF v = "" THEN [nan |-> FALSE, n |-> 0]
  ELSE IF v \in DOMAIN NumericLiterals THEN [nan |-> FALSE, n |-> NumericLiterals[v]]
  ELSE NaN

RECURSIVE SumSeq(_)
SumSeq(s) == IF s = <<>> THEN 0 ELSE Head(s) + SumSeq(Tail(s))

\* arr.map(f)
Map(s, F(_)) == [i \in 1..Len(s) |-> F(s[i])]

\* arr.includes(x)
Includes(s, x) == \E i \in 1..Len(s) : s[i] = x

\* arr.slice(0, n)
Slice(s, n) == SubSeq(s, 1, IF Len(s) < n THEN Len(s) ELSE n)

-----------------------------------------------------------------------------
(* Program constants *)

DEFAULT_MAX_CATEGORIES == 4

OTHER_COLOR == "#D0D5E0"

DIMMED_COLOR == "#e0e3ec"

COLORS == <<"#4C78A8", "#F58518", "#E45756", "#72B7B2", "#54A24B",
            "#EECA3B", "#B279A2", "#FF9DA6", "#9D755D", "#BAB0AC">>

-----------------------------------------------------------------------------
(* Filtering and aggregation *)

\* A filter that keeps a row matching any one of the filtered columns
FilterRowsAny(rows, filters) ==
  SelectSeq(rows, LAMBDA row :
    DOMAIN filters = {} \/ \E col \in DOMAIN filters : Get(row, col) = filters[col])

\* getFilteredRows, on explicit arguments
FilterRows(rows, filters) ==
  SelectSeq(rows, LAMBDA row : \A col \in DOMAIN filters : Get(row, col) = filters[col])

getFilteredRows == FilterRows(allRows, activeFilters)

\* A grouping that keeps the raw cell: no "Unknown" substitution
GroupKeyRaw(row, column) == Get(row, column)

\* row[column] || "Unknown"
GroupKey(row, column) ==
  LET v == Get(row, column) IN IF Falsy(v) THEN "Unknown" ELSE v

\* Object.keys(groups): the keys in order of first insertion (none of the
\* data's category names is an array index, which JS would list first)
RECURSIVE GroupKeys(_, _)
GroupKeys(rows, column) ==
  IF rows = <<>> THEN <<>>
  ELSE LET front == GroupKeys(SubSeq(rows, 1, Len(rows) - 1), column)
           key == GroupKey(rows[Len(rows)], column)
       IN IF Includes(front, key) THEN front ELSE Append(front, key)

\* groups[key]: the rows of one group, in row order
GroupRows(rows, column, key) == SelectSeq(rows, LAMBDA row : GroupKey(row, column) = key)

\* A sort that leaves the keys in their order of first occurrence
SortKeepsOrder(keys, size) == keys

\* Array.prototype.sort with comparator (a, b) => size[b] - size[a]: a stable
\* sort by descending size, as an insertion of each key after every key that
\* is at least as large
RECURSIVE SortBySizeDesc(_, _)
SortBySizeDesc(keys, size) ==
  IF keys = <<>> THEN <<>>
  ELSE LET n == Len(keys)
           front == SortBySizeDesc(SubSeq(keys, 1, n - 1), size)
           key == keys[n]
           before == SelectSeq(front, LAMBDA k : size[k] >= size[key])
           after == SelectSeq(front, LAMBDA k : size[k] < size[key])
       IN before \o <<key>> \o after

\* groups[key].length for every key
GroupSizes(rows, column) ==
  [key \in {GroupKey(rows[i], column) : i \in 1..Len(rows)} |->
     Cardinality({i \in 1..Len(rows) : GroupKey(rows[i], column) = key})]

getAllCategories(column, rows) == SortBySizeDesc(GroupKeys(rows, column), GroupSizes(rows, column))

\* groupRows.map((r) => Number(r[yColumn])).filter((n) => !isNaN(n))
Nums(groupRows, yColumn) ==
  LET cast == [i \in 1..Len(groupRows) |-> Number(Get(groupRows[i], yColumn))]
      kept == SelectSeq(cast, LAMBDA x : ~x.nan)
  IN [i \in 1..Len(kept) |-> kept[i].n]

\* Math.round((sum / count) * 100) / 100, in hundredths; Math.round rounds
\* halves up
RoundedAverage(sum, count) == (200 * sum + count) \div (2 * count)

\* the scalar of one group, lines 102-109
GroupValue(aggregation, groupRows, yColumn) ==
  LET nums == Nums(groupRows, yColumn) IN
  CASE aggregation = "count" -> Len(groupRows)
    [] aggregation = "average" ->
         IF Len(nums) > 0 THEN RoundedAverage(SumSeq(nums), Len(nums)) ELSE 0
    [] aggregation = "sum" -> SumSeq(nums)

\* A loop that merges collapsed groups for every aggregation
SkipsNothing(aggregation) == FALSE

\* line 116: a collapsed group is skipped, not merged, for averages
SkipsCollapsed(aggregation) == aggregation = "average"

\* An "Other" entry that needs a combined value above 1
OtherAppendedAboveOne(acc) == acc.hasOther /\ acc.otherValue > 1

\* An "Other" entry that is appended whenever a group was collapsed
OtherAppendedAlways(acc) == acc.hasOther

\* line 122: the "Other" entry is appended only with a positive combined value
OtherAppended(acc) == acc.hasOther /\ acc.otherValue > 0

\* the loop of lines 99-120 over the keys still to visit
RECURSIVE GroupLoop(_, _, _, _, _)
GroupLoop(keys, recipe, rows, selected, acc) ==
  IF keys = <<>> THEN acc
  ELSE LET key == Head(keys)
           val == GroupValue(recipe.aggregation, GroupRows(rows, recipe.xColumn, key),
                             recipe.yColumn)
           next ==
             IF Includes(selected, key)
             THEN [acc EXCEPT !.shownLabels = Append(@, key),
                              !.shownValues = Append(@, val)]
             ELSE IF SkipsCollapsed(recipe.aggregation) THEN acc
             ELSE [acc EXCEPT !.otherValue = @ + val, !.hasOther = TRUE]
       IN GroupLoop(Tail(keys), recipe, rows, selected, next)

\* computeChartData of the category-limiting dashboard
computeChartData(recipe, rows, selectedCategories) ==
  CASE recipe.type = "scatter" ->
         [x |-> [i \in 1..Len(rows) |-> Number(Get(rows[i], recipe.xColumn))],
          y |-> [i \in 1..Len(rows) |-> Number(Get(rows[i], recipe.yColumn))]]
    [] recipe.type = "histogram" ->
         [values |-> [i \in 1..Len(rows) |-> Number(Get(rows[i], recipe.xColumn))]]
    [] OTHER ->
         LET keys == GroupKeys(rows, recipe.xColumn)
             selected == IF selectedCategories = Null THEN keys ELSE selectedCategories[1]
             allKeys == SortBySizeDesc(keys, GroupSizes(rows, recipe.xColumn))
             acc == GroupLoop(allKeys, recipe, rows, selected,
                              [shownLabels |-> <<>>, shownValues |-> <<>>,
                               otherValue |-> 0, hasOther |-> FALSE])
         IN IF OtherAppended(acc)
            THEN [labels |-> Append(acc.shownLabels, "Other"),
                  values |-> Append(acc.shownValues, acc.otherValue)]
            ELSE [labels |-> acc.shownLabels, values |-> acc.shownValues]


\* The code-unit order of the labels that occur in the data: the order of the
\* default Array.prototype.sort()
LabelOrder == <<"Eng", "Finance", "Health", "Ops", "Retail", "Tech", "Unknown">>

\* A sort that loses the "Unknown" group
SortedKeysNamed(keys) ==
  SelectSeq(LabelOrder, LAMBDA k : Includes(keys, k) /\ k # "Unknown")

\* Object.keys(groups).sort()
SortedKeys(keys) == SelectSeq(LabelOrder, LAMBDA k : Includes(keys, k))

\* computeChartData of public/app.js: no category limiting, labels sorted by name
computeChartDataApp(recipe, rows) ==
  CASE recipe.type = "scatter" ->
         [x |-> [i \in 1..Len(rows) |-> Number(Get(rows[i], recipe.xColumn))],
          y |-> [i \in 1..Len(rows) |-> Number(Get(rows[i], recipe.yColumn))]]
    [] recipe.type = "histogram" ->
         [values |-> [i \in 1..Len(rows) |-> Number(Get(rows[i], recipe.xColumn))]]
    [] OTHER ->
         LET labels == SortedKeys(GroupKeys(rows, recipe.xColumn))
         IN [labels |-> labels,
             values |-> [i \in 1..Len(labels) |->
                           GroupValue(recipe.aggregation,
                                      GroupRows(rows, recipe.xColumn, labels[i]),
                                      recipe.yColumn)]]

-----------------------------------------------------------------------------
(* Rendering *)

\* COLORS[i % COLORS.length] for the 0-based index i
PaletteColor(i) == COLORS[(i % Len(COLORS)) + 1]

\* Bar colours that dim every label of a filtered column
getBarColorsDimAll(labels, xColumn, filters) ==
  [j \in 1..Len(labels) |->
     IF labels[j] = "Other" THEN OTHER_COLOR
     ELSE IF xColumn \in DOMAIN filters THEN DIMMED_COLOR
     ELSE PaletteColor(j - 1)]

getBarColors(labels, xColumn, filters) ==
  [j \in 1..Len(labels) |->
     IF labels[j] = "Other" THEN OTHER_COLOR
     ELSE IF xColumn \in DOMAIN filters /\ filters[xColumn] # labels[j] THEN DIMMED_COLOR
     ELSE PaletteColor(j - 1)]

pieColors(labels) ==
  [j \in 1..Len(labels) |-> IF labels[j] = "Other" THEN OTHER_COLOR ELSE PaletteColor(j - 1)]

\* renderPlotlyChart: the trace handed to Plotly.newPlot for one card, with
\* the selection it was computed from
renderPlotlyChart(recipe, rows, selectedCategories, filters) ==
  LET data == computeChartData(recipe, rows, selectedCategories) IN
  [type |-> recipe.type,
   selected |-> selectedCategories,
   data |-> data,
   colors |-> CASE recipe.type = "bar" -> getBarColors(data.labels, recipe.xColumn, filters)
                [] recipe.type = "pie" -> pieColors(data.labels)
                [] OTHER -> <<COLORS[1]>>]

\* A render that forgets the card's selection
SelectionArgNull(sels, cardIndex) == Null

\* cardCategorySelections[i] || null
SelectionArg(sels, cardIndex) ==
  IF cardIndex \in DOMAIN sels THEN Some(sels[cardIndex]) ELSE Null

\* renderAllDashboardCharts: every card is redrawn from the filtered rows and
\* its own selection (cards are numbered from 1 here, from 0 in the code)
renderAllDashboardCharts(recipes, rows, filters, sels) ==
  LET filtered == FilterRows(rows, filters) IN
  [i \in 1..Len(recipes) |->
     renderPlotlyChart(recipes[i], filtered, SelectionArg(sels, i), filters)]

\* renderSingleCard: one card is redrawn, the others keep their plot
renderSingleCard(shown, cardIndex, recipes, rows, filters, sels) ==
  [shown EXCEPT ![cardIndex] =
     renderPlotlyChart(recipes[cardIndex], FilterRows(rows, filters),
                       SelectionArg(sels, cardIndex), filters)]

\* buildCategorySelector, lines 319-325: the category list a selector is
\* built over, or null when the card gets no selector
SelectorCategories(recipe, rows, filters) ==
  IF recipe.type \in {"scatter", "histogram"} THEN Null
  ELSE LET allCats == getAllCategories(recipe.xColumn, FilterRows(rows, filters))
       IN IF Len(allCats) <= DEFAULT_MAX_CATEGORIES THEN Null ELSE Some(allCats)

\* A selector build that sets the default selection every time
DefaultSelectionAlways(sels, cardIndex, cats) ==
  IF cats # Null
  THEN Put(sels, cardIndex, Slice(cats[1], DEFAULT_MAX_CATEGORIES))
  ELSE sels

\* buildCategorySelector, lines 327-330: the default selection is set only
\* for a card that has none
DefaultSelection(sels, cardIndex, cats) ==
  IF cats # Null /\ cardIndex \notin DOMAIN sels
  THEN Put(sels, cardIndex, Slice(cats[1], DEFAULT_MAX_CATEGORIES))
  ELSE sels

\* rebuildCardSelector: the card's selector is removed and built again over
\* the rows as filtered now
rebuildCardSelector(sel, cardIndex, recipes, rows, filters) ==
  LET cats == SelectorCategories(recipes[cardIndex], rows, filters)
  IN IF cats = Null THEN Delete(sel, cardIndex) ELSE Put(sel, cardIndex, cats[1])

\* A filter bar that keeps the chips it already shows
updateFilterBarAppends(bar, filters) ==
  IF DOMAIN filters = {} THEN [bar EXCEPT !.hidden = TRUE]
  ELSE [hidden |-> FALSE,
        chips |-> bar.chips \cup {<<col, filters[col]>> : col \in DOMAIN filters}]

\* updateFilterBar: hidden without filters (the old chips stay in the hidden
\* bar), otherwise one chip per entry of activeFilters
updateFilterBar(bar, filters) ==
  IF DOMAIN filters = {} THEN [bar EXCEPT !.hidden = TRUE]
  ELSE [hidden |-> FALSE, chips |-> {<<col, filters[col]>> : col \in DOMAIN filters}]


-----------------------------------------------------------------------------
(* The chat box of the page *)

\* How many /api/chat requests are followed at a time
MaxInFlight == 3

\* What the user can have typed: nothing, blanks only, or a question
TypedTexts == {"", "  ", "why"}

\* String.prototype.trim on these texts
Trim(text) == IF text = "  " THEN "" ELSE text

\* The data-q attribute of the hint buttons; Undefined is a button without it
Hints == {"jobs at risk", "by industry", Undefined}

\* line 566: the greeting is shown, nothing is typed, nothing is disabled
ChatBoxStart ==
  [userInput |-> "", sendDisabled |-> FALSE, inputDisabled |-> FALSE, pending |-> <<>>,
   lastMessage |-> [role |-> "bot", text |-> "greeting"]]

\* sendQuestion up to its await, lines 517-528: the question is shown, the
\* input is cleared, both controls are disabled and the request is sent
sendQuestion(box, question) ==
  [box EXCEPT !.userInput = "", !.sendDisabled = TRUE, !.inputDisabled = TRUE,
              !.pending = Append(@, question),
              !.lastMessage = [role |-> "user", text |-> question]]

\* sendQuestion after its await, lines 530-544: the request i is over, a bot
\* message is shown, and the finally enables both controls
requestSettled(box, i, text) ==
  [box EXCEPT !.pending = SubSeq(@, 1, i - 1) \o SubSeq(@, i + 1, Len(@)),
              !.sendDisabled = FALSE, !.inputDisabled = FALSE,
              !.lastMessage = [role |-> "bot", text |-> text]]

\* click handler of the send button, lines 547-551
sendClicked(box) ==
  IF Trim(box.userInput) = "" THEN box ELSE sendQuestion(box, Trim(box.userInput))

-----------------------------------------------------------------------------
(* server.js: the dashboard recipes and their ready flag *)

\* The JSON values that the recipes variable can hold: an array of recipes,
\* null, or an object (here {})
JsonArray(items) == [json |-> "array", items |-> items]

JsonNull == [json |-> "null"]

JsonObject == [json |-> "object"]

\* lines 88-89 and 150: no recipes, not ready, generateDashboard awaits the model
ServerStart ==
  [dashboardRecipes |-> JsonArray(<<>>), dashboardReady |-> FALSE, generation |-> "running"]

\* lines 94-129 and 144-147: the call of the model is rejected; the catch logs
\* the error and sets the flag
generateDashboardRejected(srv) ==
  [srv EXCEPT !.dashboardReady = TRUE, !.generation = "failed"]

\* lines 131-147: the cleaned reply text goes through JSON.parse, whose result
\* is stored as it is; the flag is set and the length of the result is logged.
\* JSON.parse throws on a text that is no JSON and the log line throws on null
\* (null has no length); both end in the catch, which logs the error and sets
\* the flag. generation = "failed" records that the catch has run.
generateDashboardReplied(srv, text) ==
  IF ~text.parses
  THEN [srv EXCEPT !.dashboardReady = TRUE, !.generation = "failed"]
  ELSE LET stored == [srv EXCEPT !.dashboardRecipes = text.value, !.dashboardReady = TRUE]
       IN IF text.value = JsonNull
          THEN [stored EXCEPT !.generation = "failed"]
          ELSE [stored EXCEPT !.generation = "succeeded"]

\* lines 153-155: GET /api/dashboard answers with the two variables
dashboardResponse(srv) == [recipes |-> srv.dashboardRecipes, ready |-> srv.dashboardReady]

-----------------------------------------------------------------------------
(* The data and the recipes the two collaborators can answer with *)

Row(industry, role, salary) == [industry |-> industry, role |-> role, salary |-> salary]

Row2(industry, salary) == [industry |-> industry, salary |-> salary]

\* A survey extract: five industries overall and among the "Eng" rows, two
\* among the "Ops" rows; one row has an empty industry cell and one has none;
\* the "Eng" rows rank the industries differently from the whole extract.
SurveyRows ==
  << Row("Tech", "Eng", "2"),    Row("Finance", "Eng", "-3"),
     Row("Health", "Eng", ""),   Row("", "Eng", "n/a"),
     Row("Retail", "Eng", "4"),  Row("Retail", "Ops", "1"),
     [role |-> "Ops", salary |-> "5"] >>

\* rows = [{industry:"Tech"},{industry:"Tech"},{industry:"Finance"},{industry:""}]
ScenarioRows ==
  << [industry |-> "Tech"], [industry |-> "Tech"], [industry |-> "Finance"],
     [industry |-> ""] >>

Datasets == {SurveyRows, ScenarioRows}

Recipe(type, xColumn, yColumn, aggregation) ==
  [type |-> type, xColumn |-> xColumn, yColumn |-> yColumn, aggregation |-> aggregation]

\* Two answers of the recipe source: one with a chart over the five-valued
\* column, one with only charts that never get a category selector
RecipeLists ==
  { << Recipe("bar", "industry", Undefined, "count"),
       Recipe("pie", "role", Undefined, "count") >>,
    << Recipe("pie", "role", Undefined, "count"),
       Recipe("bar", "role", "salary", "average"),
       Recipe("scatter", "salary", "salary", "none"),
       Recipe("histogram", "salary", Undefined, "count") >> }

-----------------------------------------------------------------------------
(* The page: state after the script has run, and its handlers *)

NoRun == [n |-> 0]

\* The number of selection-changing pill and "All" clicks a run is followed for
MaxSelectionEdits == 4

NoCall == [op |-> "none"]

\* No /api/chat request is being handled
NoChat == [phase |-> "idle"]

Init ==
  /\ allRows = <<>>
  /\ dashboardRecipes = <<>>
  /\ activeFilters = EmptyObject
  /\ cardCategorySelections = EmptyObject
  /\ charts = <<>>
  /\ selectors = EmptyObject
  /\ filterBar = [hidden |-> TRUE, chips |-> {}]
  /\ page = [dataFetch |-> "pending", pollsInFlight |-> 0, timers |-> 0, delay |-> 0,
             loadingHidden |-> FALSE, grid |-> "empty"]
  /\ lastEvent = "load"
  /\ clickRun = NoRun
  /\ selectionEdits = 0
  /\ aggIn = NoCall
  /\ aggOut = NoCall
  /\ chat = NoChat
  /\ server = ServerStart
  /\ chatBox = ChatBoxStart

\* A retry that also polls at once, next to the timer it sets
setTimeoutPollAndPoll(p, delay) ==
  [p EXCEPT !.timers = @ + 1, !.pollsInFlight = @ + 1, !.delay = delay]

\* setTimeout(poll, delay): one more timer is pending, with this delay in ms
setTimeoutPoll(p, delay) == [p EXCEPT !.timers = @ + 1, !.delay = delay]

\* initDashboard, lines 456-459 and 490: the rows arrive, the first poll is issued
DataFetchOk ==
  /\ page.dataFetch = "pending"
  /\ \E rows \in Datasets : allRows' = rows
  /\ page' = [page EXCEPT !.dataFetch = "done", !.pollsInFlight = @ + 1]
  /\ lastEvent' = "dataOk"
  /\ clickRun' = NoRun
  /\ UNCHANGED <<dashboardRecipes, activeFilters, cardCategorySelections, charts,
                 selectors, filterBar, aggIn, aggOut, selectionEdits, chat, server, chatBox>>

\* A failed fetch that ends initDashboard
fetchFailedFatal(p) == [p EXCEPT !.dataFetch = "failed"]

\* A first poll that does not wait for the row fetch to settle
fetchFailedPollsEarly(p) == [p EXCEPT !.pollsInFlight = 1]

\* initDashboard, lines 460-462 and 490: the error is logged and poll() is called
fetchFailed(p) == [p EXCEPT !.dataFetch = "failed", !.pollsInFlight = @ + 1]

\* initDashboard, lines 460-462 and 490: the fetch fails, the first poll is issued
DataFetchFail ==
  /\ page.dataFetch = "pending"
  /\ page' = fetchFailed(page)
  /\ lastEvent' = "dataFail"
  /\ clickRun' = NoRun
  /\ UNCHANGED <<allRows, dashboardRecipes, activeFilters, cardCategorySelections, charts,
                 selectors, filterBar, aggIn, aggOut, selectionEdits, chat, server, chatBox>>

\* poll, lines 469-472: not ready yet, poll again in 2 s
PollNotReady ==
  /\ page.pollsInFlight > 0
  /\ page' = setTimeoutPoll([page EXCEPT !.pollsInFlight = @ - 1], 2000)
  /\ lastEvent' = "pollNotReady"
  /\ clickRun' = NoRun
  /\ UNCHANGED <<allRows, dashboardRecipes, activeFilters, cardCategorySelections, charts,
                 selectors, filterBar, aggIn, aggOut, selectionEdits, chat, server, chatBox>>

\* poll, lines 484-487: the fetch or its JSON body fails, poll again in 3 s
PollError ==
  /\ page.pollsInFlight > 0
  /\ page' = setTimeoutPoll([page EXCEPT !.pollsInFlight = @ - 1], 3000)
  /\ lastEvent' = "pollError"
  /\ clickRun' = NoRun
  /\ UNCHANGED <<allRows, dashboardRecipes, activeFilters, cardCategorySelections, charts,
                 selectors, filterBar, aggIn, aggOut, selectionEdits, chat, server, chatBox>>

\* setTimeout(poll, ...) fires
TimerFires ==
  /\ page.timers > 0
  /\ page' = [page EXCEPT !.timers = @ - 1, !.pollsInFlight = @ + 1, !.delay = 0]
  /\ lastEvent' = "timer"
  /\ clickRun' = NoRun
  /\ UNCHANGED <<allRows, dashboardRecipes, activeFilters, cardCategorySelections, charts,
                 selectors, filterBar, aggIn, aggOut, selectionEdits, chat, server, chatBox>>

\* An empty answer that is taken for "not ready yet"
showNoChartsAndRetry(p) ==
  setTimeoutPoll([p EXCEPT !.loadingHidden = TRUE, !.grid = "message"], 2000)

\* poll, lines 474-479: the loading indicator is hidden, the grid shows the
\* "No charts were generated" message, and poll returns
showNoCharts(p) == [p EXCEPT !.loadingHidden = TRUE, !.grid = "message"]

\* poll, lines 474-480: ready without recipes
PollReadyEmpty ==
  /\ page.pollsInFlight > 0
  /\ page' = showNoCharts([page EXCEPT !.pollsInFlight = @ - 1])
  /\ lastEvent' = "pollEmpty"
  /\ clickRun' = NoRun
  /\ UNCHANGED <<allRows, dashboardRecipes, activeFilters, cardCategorySelections, charts,
                 selectors, filterBar, aggIn, aggOut, selectionEdits, chat, server, chatBox>>

\* buildDashboardCards: the selections are reset, each card gets its selector
\* (and with it its default selection), then every card is drawn
builtSelectors(recipes, rows, filters) ==
  LET cats(i) == SelectorCategories(recipes[i], rows, filters)
      withSelector == {i \in 1..Len(recipes) : cats(i) # Null}
  IN [i \in withSelector |-> cats(i)[1]]

builtSelections(recipes, rows, filters) ==
  LET cats(i) == SelectorCategories(recipes[i], rows, filters)
      withSelector == {i \in 1..Len(recipes) : cats(i) # Null}
  IN [i \in withSelector |-> DefaultSelection(EmptyObject, i, cats(i))[i]]

buildDashboardCards(recipes) ==
  LET sels == builtSelections(recipes, allRows, activeFilters)
  IN /\ cardCategorySelections' = sels
     /\ selectors' = builtSelectors(recipes, allRows, activeFilters)
     /\ charts' = renderAllDashboardCharts(recipes, allRows, activeFilters, sels)

\* poll, lines 474 and 482-483: ready with recipes
PollReady ==
  /\ page.pollsInFlight > 0
  /\ \E recipes \in RecipeLists :
       /\ dashboardRecipes' = recipes
       /\ buildDashboardCards(recipes)
  /\ page' = [page EXCEPT !.pollsInFlight = @ - 1, !.loadingHidden = TRUE,
                          !.grid = "cards"]
  /\ lastEvent' = "pollReady"
  /\ clickRun' = NoRun
  /\ UNCHANGED <<allRows, activeFilters, filterBar, aggIn, aggOut, selectionEdits, chat, server, chatBox>>

\* A ready answer whose recipes value is not an array, here the JSON object {}
\* (the server stores whatever JSON.parse returns, server.js line 141). Lines
\* 474-476 pass it, line 482 stores it, and buildDashboardCards clears the grid
\* and the selections (lines 392-393) and then throws at line 395, since an
\* object has no forEach; the catch of lines 484-487 logs and polls again in
\* 3 s. The object {} is the function with the empty domain.
PollReadyBuildThrows ==
  /\ page.pollsInFlight > 0
  /\ dashboardRecipes' = EmptyObject
  /\ cardCategorySelections' = EmptyObject
  /\ charts' = <<>>
  /\ selectors' = EmptyObject
  /\ page' = setTimeoutPoll([page EXCEPT !.pollsInFlight = @ - 1, !.loadingHidden = TRUE,
                                         !.grid = "empty"], 3000)
  /\ lastEvent' = "pollBuildThrows"
  /\ clickRun' = NoRun
  /\ UNCHANGED <<allRows, activeFilters, filterBar, aggIn, aggOut, selectionEdits, chat, server, chatBox>>

\* A click handler that only ever sets the filter
clickFilterSetOnly(filters, col, clickedLabel) == Put(filters, col, clickedLabel)

\* A click handler that starts the filter state over on every click
clickFilterAlone(filters, col, clickedLabel) ==
  IF Get(filters, col) = clickedLabel THEN EmptyObject
  ELSE Put(EmptyObject, col, clickedLabel)

\* plotly_click handler, lines 229-234: the filter of the chart's column is
\* cleared when it already has the clicked value, set to it otherwise
clickFilter(filters, col, clickedLabel) ==
  IF Get(filters, col) = clickedLabel THEN Delete(filters, col)
  ELSE Put(filters, col, clickedLabel)

\* A click handler that treats the "Other" element like any other
clickIgnoredNever(clickedLabel) == FALSE

\* plotly_click handler, line 228: a click on the "Other" element returns at once
clickIgnored(clickedLabel) == clickedLabel = "Other"

\* The run of consecutive clicks on one plotted element that a click extends
\* or starts; a run starts only from a state without a filter on the column.
RunAfterClick(cardIndex, label, col) ==
  IF clickRun.n = 1 /\ clickRun.card = cardIndex /\ clickRun.label = label
  THEN [clickRun EXCEPT !.n = 2]
  ELSE IF col \notin DOMAIN activeFilters
  THEN [n |-> 1, card |-> cardIndex, label |-> label,
        filters |-> activeFilters, rows |-> getFilteredRows]
  ELSE NoRun

\* The plotted elements of a card that carry the plotly_click handler: the
\* bars or slices of a bar or pie card (line 225), numbered as in data.labels
ClickableElements(cardIndex) ==
  IF dashboardRecipes[cardIndex].type \in {"bar", "pie"}
  THEN DOMAIN charts[cardIndex].data.labels
  ELSE {}

\* plotly_click on the j-th plotted element of a bar or pie card (lines 225-238)
ChartClickOn(cardIndex, j) ==
  LET clickedLabel == charts[cardIndex].data.labels[j]
      col == dashboardRecipes[cardIndex].xColumn
  IN /\ j \in ClickableElements(cardIndex)
     /\ clickRun' = RunAfterClick(cardIndex, clickedLabel, col)
     /\ IF clickIgnored(clickedLabel)
        THEN /\ lastEvent' = "clickOther"
             /\ UNCHANGED <<activeFilters, charts, filterBar>>
        ELSE /\ lastEvent' = "click"
             /\ activeFilters' = clickFilter(activeFilters, col, clickedLabel)
             /\ charts' = renderAllDashboardCharts(dashboardRecipes, allRows,
                            activeFilters', cardCategorySelections)
             /\ filterBar' = updateFilterBar(filterBar, activeFilters')
     /\ UNCHANGED <<allRows, dashboardRecipes, cardCategorySelections, selectors, page,
                    aggIn, aggOut, selectionEdits, chat, server, chatBox>>

ChartClick ==
  \E cardIndex \in DOMAIN charts :
    \E j \in ClickableElements(cardIndex) : ChartClickOn(cardIndex, j)

\* A click on a point of a scatter or histogram card: line 225 registers no
\* plotly_click handler for these types, so nothing runs
InertChartClick ==
  /\ \E cardIndex \in DOMAIN charts :
       dashboardRecipes[cardIndex].type \in {"scatter", "histogram"}
  /\ lastEvent' = "clickInert"
  /\ clickRun' = NoRun
  /\ UNCHANGED <<allRows, dashboardRecipes, activeFilters, cardCategorySelections, charts,
                 selectors, filterBar, page, aggIn, aggOut, selectionEdits, chat, server, chatBox>>

\* A pill handler without the floor: every selected label can be removed
pillRejectedNever(sel, cat) == FALSE

\* pill click handler, lines 345-347: removing the only selected label is refused
pillRejected(sel, cat) == Includes(sel, cat) /\ Len(sel) <= 1

\* A pill handler that puts an added label in front
pillSelectionInFront(sel, cat) ==
  IF Includes(sel, cat) THEN SelectSeq(sel, LAMBDA c : c # cat) ELSE <<cat>> \o sel

\* pill click handler, lines 345-351: the selection after an accepted click on cat
pillSelection(sel, cat) ==
  IF Includes(sel, cat) THEN SelectSeq(sel, LAMBDA c : c # cat) ELSE Append(sel, cat)

\* click on the j-th category pill of a card's selector (lines 343-355)
PillClickOn(cardIndex, j) ==
  LET cat == selectors[cardIndex][j]
      sel == cardCategorySelections[cardIndex]
  IN /\ clickRun' = NoRun
     /\ IF pillRejected(sel, cat)
        THEN /\ lastEvent' = "pillRejected"
             /\ UNCHANGED <<cardCategorySelections, selectors, charts, selectionEdits>>
        ELSE /\ lastEvent' = "pill"
             /\ selectionEdits < MaxSelectionEdits
             /\ selectionEdits' = selectionEdits + 1
             /\ cardCategorySelections' =
                  DefaultSelection(
                    [cardCategorySelections EXCEPT ![cardIndex] = pillSelection(sel, cat)],
                    cardIndex,
                    SelectorCategories(dashboardRecipes[cardIndex], allRows, activeFilters))
             /\ selectors' = rebuildCardSelector(selectors, cardIndex, dashboardRecipes,
                                                 allRows, activeFilters)
             /\ charts' = renderSingleCard(charts, cardIndex, dashboardRecipes, allRows,
                                           activeFilters, cardCategorySelections')
     /\ UNCHANGED <<allRows, dashboardRecipes, activeFilters, filterBar, page,
                    aggIn, aggOut, chat, server, chatBox>>

PillClick ==
  \E cardIndex \in DOMAIN selectors :
    \E j \in DOMAIN selectors[cardIndex] : PillClickOn(cardIndex, j)

\* "All" handler, lines 364-368, with the category list its selector was built over
allSelection(sel, allCats) ==
  IF Len(sel) = Len(allCats) THEN Slice(allCats, DEFAULT_MAX_CATEGORIES) ELSE allCats

\* click on a card's "All" pill (lines 363-371)
AllToggleOn(cardIndex) ==
  /\ lastEvent' = "all"
  /\ clickRun' = NoRun
  /\ selectionEdits < MaxSelectionEdits
  /\ selectionEdits' = selectionEdits + 1
  /\ cardCategorySelections' =
       DefaultSelection(
         [cardCategorySelections EXCEPT
            ![cardIndex] = allSelection(@, selectors[cardIndex])],
         cardIndex,
         SelectorCategories(dashboardRecipes[cardIndex], allRows, activeFilters))
  /\ selectors' = rebuildCardSelector(selectors, cardIndex, dashboardRecipes,
                                      allRows, activeFilters)
  /\ charts' = renderSingleCard(charts, cardIndex, dashboardRecipes, allRows,
                                activeFilters, cardCategorySelections')
  /\ UNCHANGED <<allRows, dashboardRecipes, activeFilters, filterBar, page,
                 aggIn, aggOut, chat, server, chatBox>>

AllToggle == \E cardIndex \in DOMAIN selectors : AllToggleOn(cardIndex)

\* click on the remove control of the visible filter chip of column col
\* (lines 440-444)
ChipRemoveOn(col) ==
  /\ ~filterBar.hidden
  /\ \E chip \in filterBar.chips : chip[1] = col
  /\ lastEvent' = "chip"
  /\ clickRun' = NoRun
  /\ activeFilters' = Delete(activeFilters, col)
  /\ charts' = renderAllDashboardCharts(dashboardRecipes, allRows, activeFilters',
                                        cardCategorySelections)
  /\ filterBar' = updateFilterBar(filterBar, activeFilters')
  /\ UNCHANGED <<allRows, dashboardRecipes, cardCategorySelections, selectors, page,
                 aggIn, aggOut, selectionEdits, chat, server, chatBox>>

ChipRemove == \E chip \in filterBar.chips : ChipRemoveOn(chip[1])

\* click on the clear-all control (lines 448-452)
ClearFilters ==
  /\ lastEvent' = "clear"
  /\ clickRun' = NoRun
  /\ activeFilters' = EmptyObject
  /\ charts' = renderAllDashboardCharts(dashboardRecipes, allRows, activeFilters',
                                        cardCategorySelections)
  /\ filterBar' = updateFilterBar(filterBar, activeFilters')
  /\ UNCHANGED <<allRows, dashboardRecipes, cardCategorySelections, selectors, page,
                 aggIn, aggOut, selectionEdits, chat, server, chatBox>>

Next ==
  \/ DataFetchOk
  \/ DataFetchFail
  \/ PollNotReady
  \/ PollError
  \/ TimerFires
  \/ PollReadyEmpty
  \/ PollReady
  \/ PollReadyBuildThrows
  \/ ChartClick
  \/ InertChartClick
  \/ PillClick
  \/ AllToggle
  \/ ChipRemove
  \/ ClearFilters

Spec == Init /\ [][Next]_vars


-----------------------------------------------------------------------------
(* A dashboard with two cards over the five-valued column, followed from the
   moment its cards are built, or from the click on a bar that follows *)

\* An answer of the recipe source with two charts that both get a selector
SelectorRecipes ==
  << Recipe("bar", "industry", Undefined, "count"),
     Recipe("pie", "industry", Undefined, "count") >>

\* The page right after DataFetchOk with the survey rows and PollReady with
\* the two recipes, and the page after a click on the "Retail" bar of the
\* first card in that state
InitSelectors ==
  /\ allRows = SurveyRows
  /\ dashboardRecipes = SelectorRecipes
  /\ cardCategorySelections = builtSelections(SelectorRecipes, SurveyRows, EmptyObject)
  /\ selectors = builtSelectors(SelectorRecipes, SurveyRows, EmptyObject)
  /\ \/ /\ activeFilters = EmptyObject
        /\ lastEvent = "pollReady"
        /\ clickRun = NoRun
     \/ /\ activeFilters = clickFilter(EmptyObject, "industry", "Retail")
        /\ lastEvent = "click"
        /\ clickRun = [n |-> 1, card |-> 1, label |-> "Retail", filters |-> EmptyObject,
                       rows |-> SurveyRows]
  /\ charts = renderAllDashboardCharts(SelectorRecipes, SurveyRows, activeFilters,
                                       cardCategorySelections)
  /\ filterBar = updateFilterBar([hidden |-> TRUE, chips |-> {}], activeFilters)
  /\ page = [dataFetch |-> "done", pollsInFlight |-> 0, timers |-> 0, delay |-> 0,
             loadingHidden |-> TRUE, grid |-> "cards"]
  /\ selectionEdits = 0
  /\ aggIn = NoCall
  /\ aggOut = NoCall
  /\ chat = NoChat
  /\ server = generateDashboardReplied(ServerStart,
                                       [parses |-> TRUE, value |-> JsonArray(SelectorRecipes)])
  /\ chatBox = ChatBoxStart

NextSelectors ==
  \/ PillClick
  \/ AllToggle
  \/ ChipRemove
  \/ ClearFilters

SpecSelectors == InitSelectors /\ [][NextSelectors]_vars

-----------------------------------------------------------------------------
(* The page polling the server that generates the recipes *)

\* The reply texts of the model, after the cleaning of lines 131-139: a text
\* that is no JSON, or the JSON text of an array of recipes, of null or of {}
DashboardTexts ==
  {[parses |-> FALSE]}
    \cup {[parses |-> TRUE, value |-> v] :
            v \in {JsonNull, JsonObject} \cup {JsonArray(l) : l \in RecipeLists \cup {<<>>}}}

UnchangedByServer ==
  UNCHANGED <<allRows, dashboardRecipes, activeFilters, cardCategorySelections, charts,
              selectors, filterBar, page, lastEvent, clickRun, selectionEdits, aggIn, aggOut,
              chat, chatBox>>

\* generateDashboard resumes with the reply of the model
GenerateReplies ==
  /\ server.generation = "running"
  /\ \E text \in DashboardTexts : server' = generateDashboardReplied(server, text)
  /\ UnchangedByServer

\* generateDashboard resumes with the rejection of the call
GenerateRejects ==
  /\ server.generation = "running"
  /\ server' = generateDashboardRejected(server)
  /\ UnchangedByServer

\* part_000 line 476: !data.recipes || data.recipes.length === 0
recipesMissing(recipes) ==
  IF recipes.json = "array" THEN recipes.items = <<>> ELSE recipes.json = "null"

\* poll gets the answer of a server that is not ready
ServedNotReady ==
  /\ ~dashboardResponse(server).ready
  /\ PollNotReady

\* poll gets a ready answer with null or with an empty array
ServedEmpty ==
  /\ dashboardResponse(server).ready
  /\ recipesMissing(dashboardResponse(server).recipes)
  /\ PollReadyEmpty

\* poll gets a ready answer with an array of recipes
ServedRecipes ==
  /\ dashboardResponse(server).ready
  /\ dashboardResponse(server).recipes.json = "array"
  /\ ~recipesMissing(dashboardResponse(server).recipes)
  /\ PollReady
  /\ dashboardRecipes' = dashboardResponse(server).recipes.items

\* poll gets a ready answer with {}
ServedNonArray ==
  /\ dashboardResponse(server).ready
  /\ dashboardResponse(server).recipes.json = "object"
  /\ PollReadyBuildThrows

NextDashboard ==
  \/ GenerateReplies
  \/ GenerateRejects
  \/ DataFetchOk
  \/ DataFetchFail
  \/ TimerFires
  \/ PollError
  \/ ServedNotReady
  \/ ServedEmpty
  \/ ServedRecipes
  \/ ServedNonArray

SpecDashboard == Init /\ [][NextDashboard]_vars

\* A poll gets its answer: the steps ServedNotReady, ServedEmpty, ServedRecipes
\* and ServedNonArray, told by the handler they record in lastEvent. One of
\* the four is possible exactly when a poll awaits its answer.
PollAnswered ==
  /\ page.pollsInFlight > 0
  /\ lastEvent' \in {"pollNotReady", "pollEmpty", "pollReady", "pollBuildThrows"}

\* The model call settles, the row fetch settles and timers fire; polls may
\* fail, but a poll that is issued again and again is answered at some time
FairDashboard ==
  /\ SpecDashboard
  /\ WF_vars(GenerateReplies \/ GenerateRejects)
  /\ WF_vars(DataFetchOk \/ DataFetchFail)
  /\ WF_vars(TimerFires)
  /\ SF_lastEvent(PollAnswered)

-----------------------------------------------------------------------------
(* The chat box: typing, sending, hints and the answers of /api/chat *)

UnchangedByChatBox ==
  UNCHANGED <<allRows, dashboardRecipes, activeFilters, cardCategorySelections, charts,
              selectors, filterBar, page, lastEvent, clickRun, selectionEdits, aggIn, aggOut,
              chat, server>>

\* the user edits the text input, which a disabled input does not allow
TypeQuestion ==
  /\ ~chatBox.inputDisabled
  /\ \E text \in TypedTexts : chatBox' = [chatBox EXCEPT !.userInput = text]
  /\ UnchangedByChatBox

\* click on the send button, lines 547-551; a disabled button gets no click
SendClick ==
  /\ ~chatBox.sendDisabled
  /\ Len(chatBox.pending) < MaxInFlight
  /\ chatBox' = sendClicked(chatBox)
  /\ UnchangedByChatBox

\* Enter in the text input, lines 553-558: sendBtn.click(), which does nothing
\* on a disabled button; a disabled input gets no key
EnterPressed ==
  /\ ~chatBox.inputDisabled
  /\ Len(chatBox.pending) < MaxInFlight
  /\ chatBox' = IF chatBox.sendDisabled THEN chatBox ELSE sendClicked(chatBox)
  /\ UnchangedByChatBox

\* click on a hint button, lines 560-566; nothing ever disables these buttons
HintClick ==
  /\ Len(chatBox.pending) < MaxInFlight
  /\ \E query \in Hints :
       chatBox' = IF query = Undefined THEN chatBox ELSE sendQuestion(chatBox, query)
  /\ UnchangedByChatBox

\* lines 537-538: a request is answered with a reply
ChatAnswered ==
  /\ \E i \in 1..Len(chatBox.pending) : chatBox' = requestSettled(chatBox, i, "reply")
  /\ UnchangedByChatBox

\* lines 531-535: a request is answered with an error status
ChatRefused ==
  /\ \E i \in 1..Len(chatBox.pending) : chatBox' = requestSettled(chatBox, i, "error")
  /\ UnchangedByChatBox

\* lines 539-540: the fetch of a request fails
ChatNetworkError ==
  /\ \E i \in 1..Len(chatBox.pending) :
       chatBox' = requestSettled(chatBox, i, "Network error")
  /\ UnchangedByChatBox

NextChatBox ==
  \/ TypeQuestion
  \/ SendClick
  \/ EnterPressed
  \/ HintClick
  \/ ChatAnswered
  \/ ChatRefused
  \/ ChatNetworkError

SpecChatBox == Init /\ [][NextChatBox]_vars

-----------------------------------------------------------------------------
(* Direct calls of the aggregation functions on bounded inputs *)

\* The longest row sequence the functions are called with
MaxRows == 4

\* Rows a filtered subset can hold: both signs of salary, an empty and an
\* unparsable salary, a missing salary, an empty and a missing industry
CallRows ==
  { Row2("Tech", "2"), Row2("Tech", "-3"), Row2("Tech", ""), [industry |-> "Finance"],
    Row2("", ""), [salary |-> "n/a"] }

RowSeqs == UNION {[1..n -> CallRows] : n \in 0..MaxRows}

\* The selections a card can pass: none, or labels of which any number occur
\* in the rows
CallSelections ==
  { Null, Some(<<"Tech">>), Some(<<"Finance", "Tech">>), Some(<<"Unknown">>),
    Some(<<"Tech", "Finance", "Unknown">>), Some(<<"Retail">>) }

CallRecipes ==
  { Recipe("bar", "industry", Undefined, "count"),
    Recipe("pie", "industry", Undefined, "count"),
    Recipe("bar", "industry", "salary", "average"),
    Recipe("bar", "industry", "salary", "sum"),
    Recipe("scatter", "industry", "salary", "none"),
    Recipe("histogram", "salary", Undefined, "count") }

InitCalls ==
  /\ allRows = <<>>
  /\ dashboardRecipes = <<>>
  /\ activeFilters = EmptyObject
  /\ cardCategorySelections = EmptyObject
  /\ charts = <<>>
  /\ selectors = EmptyObject
  /\ filterBar = [hidden |-> TRUE, chips |-> {}]
  /\ page = [dataFetch |-> "pending", pollsInFlight |-> 0, timers |-> 0, delay |-> 0,
             loadingHidden |-> FALSE, grid |-> "empty"]
  /\ lastEvent = "load"
  /\ clickRun = NoRun
  /\ selectionEdits = 0
  /\ \E recipe \in CallRecipes, rows \in RowSeqs, selected \in CallSelections :
       /\ recipe.type \in {"scatter", "histogram"} => selected = Null
       /\ aggIn = [op |-> "args", recipe |-> recipe, rows |-> rows, selected |-> selected]
  /\ aggOut = NoCall
  /\ chat = NoChat
  /\ server = ServerStart
  /\ chatBox = ChatBoxStart

UnchangedPage ==
  UNCHANGED <<allRows, dashboardRecipes, activeFilters, cardCategorySelections, charts,
              selectors, filterBar, page, lastEvent, clickRun, selectionEdits, aggIn, chat, server, chatBox>>

CallComputeChartData ==
  /\ aggOut = NoCall
  /\ aggOut' = [op |-> "computeChartData",
                out |-> computeChartData(aggIn.recipe, aggIn.rows, aggIn.selected)]
  /\ UnchangedPage

CallComputeChartDataApp ==
  /\ aggOut = NoCall
  /\ aggOut' = [op |-> "computeChartDataApp",
                out |-> computeChartDataApp(aggIn.recipe, aggIn.rows)]
  /\ UnchangedPage

CallGetAllCategories ==
  /\ aggOut = NoCall
  /\ aggOut' = [op |-> "getAllCategories",
                out |-> getAllCategories(aggIn.recipe.xColumn, aggIn.rows)]
  /\ UnchangedPage

NextCalls ==
  \/ CallComputeChartData
  \/ CallComputeChartDataApp
  \/ CallGetAllCategories

SpecCalls == InitCalls /\ [][NextCalls]_vars


-----------------------------------------------------------------------------
(* The /api/chat handler of the two server variants *)

\* The most fenced json blocks a model reply holds
MaxBlocks == 2

\* A question as it arrives in req.body: absent, or a JSON value with its type
Questions ==
  { [type |-> "undefined"], [type |-> "string", value |-> ""],
    [type |-> "string", value |-> "why"], [type |-> "number", value |-> "42"],
    [type |-> "object", value |-> "{}"] }

\* The outcome of evaluating a model-supplied expression with new Function:
\* a value, or a throw of an Error object (every exception the engine raises
\* is one), or a throw of a value without properties (throw null)
EvalOutcomes == {"value", "throwsError", "throwsNull"}

\* The fenced json blocks of a model reply: a compute block, a chart block
\* (with its data fields labels and values, each an array literal or a string
\* that is evaluated as an expression, or without a data object), a JSON
\* object that is neither, and text that is not JSON
Blocks ==
  {[kind |-> "compute", eval |-> e] : e \in EvalOutcomes}
    \cup {[kind |-> "chart", hasData |-> TRUE, labels |-> l, values |-> v] :
            l \in {"array", "value", "throwsNull"}, v \in {"array", "value", "throwsError"}}
    \cup {[kind |-> "chart", hasData |-> FALSE, labels |-> "array", values |-> "array"],
          [kind |-> "other"], [kind |-> "malformed"]}

\* The text of a reply: the prose before the first block, the blocks, and
\* the computed result that replaced them, if any
Replies ==
  {[intro |-> i, blocks |-> b, result |-> "none"] :
     i \in {"", "Here is what I see."},
     b \in UNION {[1..n -> Blocks] : n \in 0..MaxBlocks}}

\* A question that is accepted whenever it is present
questionMissingOnlyAbsent(question) == question.type = "undefined"

\* line 160: !question || typeof question !== "string"
questionMissing(question) ==
  IF question.type # "string" THEN TRUE ELSE question.value = ""

\* What a thrown value is to a catch clause that reads its message property:
\* reading it from null throws a TypeError inside the catch clause
ThrownBy(outcome) ==
  CASE outcome = "throwsError" -> "Error"
    [] outcome = "throwsNull" -> "null"
    [] OTHER -> "none"

\* lines 253-266: the compute block. The first fenced json block is parsed
\* (line 256) whichever block made the pattern of line 253 match; a parsed
\* object without a compute member evaluates the expression `undefined`.
\* On success the reply is cut at the first block and the result appended.
computeBlock(reply) ==
  IF ~\E i \in DOMAIN reply.blocks : reply.blocks[i].kind = "compute"
  THEN [reply |-> reply, log |-> <<>>, threw |-> {}, escaped |-> FALSE]
  ELSE LET first == reply.blocks[1]
           thrown == CASE first.kind = "malformed" -> "Error"
                       [] first.kind = "compute" -> ThrownBy(first.eval)
                       [] OTHER -> "none"
       IN CASE thrown = "none" ->
                 [reply |-> [reply EXCEPT !.blocks = <<>>,
                                          !.result = IF first.kind = "compute"
                                                     THEN "value" ELSE "undefined"],
                  log |-> <<>>, threw |-> {}, escaped |-> FALSE]
            [] thrown = "Error" ->
                 [reply |-> reply, log |-> <<"Compute error">>,
                  threw |-> {<<"compute", 1>>}, escaped |-> FALSE]
            [] thrown = "null" ->
                 [reply |-> reply, log |-> <<>>,
                  threw |-> {<<"compute", 1>>}, escaped |-> TRUE]

\* lines 283-287 on one chart block: the fields are evaluated in the order
\* labels, values; the first throw ends the evaluation
chartFields(block) ==
  IF ~block.hasData THEN [thrown |-> "Error", labels |-> block.labels, values |-> block.values]
  ELSE IF ThrownBy(block.labels) # "none"
  THEN [thrown |-> ThrownBy(block.labels), labels |-> block.labels, values |-> block.values]
  ELSE IF ThrownBy(block.values) # "none"
  THEN [thrown |-> ThrownBy(block.values), labels |-> "array", values |-> block.values]
  ELSE [thrown |-> "none", labels |-> "array", values |-> "array"]

\* lines 269-296: the loop over the fenced json blocks still in the reply,
\* from block i on; acc holds chartData, the reply, the log and what threw
RECURSIVE chartLoop(_, _, _)
chartLoop(blocks, i, acc) ==
  IF i > Len(blocks) THEN acc
  ELSE LET block == blocks[i] IN
       CASE block.kind = "malformed" ->
              chartLoop(blocks, i + 1, [acc EXCEPT !.log = Append(@, "Chart eval error")])
         [] block.kind \in {"compute", "other"} -> chartLoop(blocks, i + 1, acc)
         [] block.kind = "chart" ->
              LET fields == chartFields(block) IN
              CASE fields.thrown = "none" ->
                     [acc EXCEPT !.chart = Some([labels |-> fields.labels,
                                                 values |-> fields.values, block |-> i]),
                                 !.reply.blocks =
                                    SubSeq(blocks, 1, i - 1) \o SubSeq(blocks, i + 1, Len(blocks))]
                [] fields.thrown = "Error" ->
                     chartLoop(blocks, i + 1,
                               [acc EXCEPT !.log = Append(@, "Chart eval error"),
                                           !.threw = @ \cup {<<"chart", i>>}])
                [] fields.thrown = "null" ->
                     [acc EXCEPT !.threw = @ \cup {<<"chart", i>>}, !.escaped = TRUE]

\* lines 247-302 of server.js: what the handler does with the model's reply
chatResponse(reply) ==
  LET computed == computeBlock(reply)
      charted == IF computed.escaped THEN [computed EXCEPT !.reply = reply] @@ [chart |-> Null]
                 ELSE chartLoop(computed.reply.blocks, 1, computed @@ [chart |-> Null])
  IN IF charted.escaped
     THEN [status |-> 500, body |-> [error |-> "Failed to get response from Claude"],
           log |-> Append(charted.log, "Claude API error"), threw |-> charted.threw]
     ELSE [status |-> 200, body |-> [reply |-> charted.reply, chart |-> charted.chart],
           log |-> charted.log, threw |-> charted.threw]

\* lines 123-146 of part_001: the older handler has the compute block only
chatResponseOld(reply) ==
  LET computed == computeBlock(reply)
  IN IF computed.escaped
     THEN [status |-> 500, body |-> [error |-> "Failed to get response from Claude"],
           log |-> Append(computed.log, "Claude API error"), threw |-> computed.threw]
     ELSE [status |-> 200, body |-> [reply |-> computed.reply],
           log |-> computed.log, threw |-> computed.threw]

InitChat ==
  /\ allRows = <<>>
  /\ dashboardRecipes = <<>>
  /\ activeFilters = EmptyObject
  /\ cardCategorySelections = EmptyObject
  /\ charts = <<>>
  /\ selectors = EmptyObject
  /\ filterBar = [hidden |-> TRUE, chips |-> {}]
  /\ page = [dataFetch |-> "pending", pollsInFlight |-> 0, timers |-> 0, delay |-> 0,
             loadingHidden |-> FALSE, grid |-> "empty"]
  /\ lastEvent = "load"
  /\ clickRun = NoRun
  /\ selectionEdits = 0
  /\ aggIn = NoCall
  /\ aggOut = NoCall
  /\ \E variant \in {"server.js", "part_001"}, question \in Questions, vizMode \in BOOLEAN :
       chat = [phase |-> "received", variant |-> variant,
               request |-> [question |-> question, vizMode |-> vizMode],
               modelCalls |-> 0, modelReply |-> [answer |-> "pending"], responses |-> <<>>, log |-> <<>>,
               threw |-> {}]
  /\ server = ServerStart
  /\ chatBox = ChatBoxStart

UnchangedClient ==
  UNCHANGED <<allRows, dashboardRecipes, activeFilters, cardCategorySelections, charts,
              selectors, filterBar, page, lastEvent, clickRun, selectionEdits, aggIn, aggOut,
              server, chatBox>>

\* lines 159-162: a request without a usable question is answered with 400
ChatReject ==
  /\ chat.phase = "received"
  /\ questionMissing(chat.request.question)
  /\ chat' = [chat EXCEPT !.phase = "done",
                          !.responses = Append(@, [status |-> 400,
                                                   body |-> [error |-> "Missing question"]])]
  /\ UnchangedClient

\* lines 239-245: the model is called and the handler awaits its answer
ChatCallModel ==
  /\ chat.phase = "received"
  /\ ~questionMissing(chat.request.question)
  /\ chat' = [chat EXCEPT !.phase = "awaiting", !.modelCalls = @ + 1]
  /\ UnchangedClient

\* lines 299-302: the call of the model fails
ChatModelFails ==
  /\ chat.phase = "awaiting"
  /\ chat' = [chat EXCEPT !.phase = "done",
                          !.modelReply = [answer |-> "failed"],
                          !.log = Append(@, "Claude API error"),
                          !.responses = Append(@, [status |-> 500,
                               body |-> [error |-> "Failed to get response from Claude"]])]
  /\ UnchangedClient

\* lines 247-298: the model answers and the handler works through the reply
ChatModelReplies ==
  /\ chat.phase = "awaiting"
  /\ \E reply \in Replies :
       LET out == IF chat.variant = "server.js" THEN chatResponse(reply)
                  ELSE chatResponseOld(reply)
       IN chat' = [chat EXCEPT !.phase = "done",
                               !.modelReply = reply,
                               !.log = @ \o out.log,
                               !.threw = out.threw,
                               !.responses = Append(@, [status |-> out.status,
                                                        body |-> out.body])]
  /\ UnchangedClient

NextChat ==
  \/ ChatReject
  \/ ChatCallModel
  \/ ChatModelFails
  \/ ChatModelReplies

SpecChat == InitChat /\ [][NextChat]_vars

-----------------------------------------------------------------------------
(* What the aggregation is expected to return, stated over the row indices *)

\* The label a row is expected under
SpecLabel(row, column) ==
  IF column \in DOMAIN row /\ row[column] # "" THEN row[column] ELSE "Unknown"

SpecIndices(rows, column, label) == {i \in 1..Len(rows) : SpecLabel(rows[i], column) = label}

SpecLabels(rows, column) == {SpecLabel(rows[i], column) : i \in 1..Len(rows)}

RECURSIVE SpecSumOver(_, _)
SpecSumOver(S, f) ==
  IF S = {} THEN 0 ELSE LET x == CHOOSE y \in S : TRUE IN f[x] + SpecSumOver(S \ {x}, f)

\* The rows of a group that carry a number in the value column
SpecNumeric(rows, column, label, yColumn) ==
  {i \in SpecIndices(rows, column, label) :
     /\ yColumn \in DOMAIN rows[i]
     /\ rows[i][yColumn] \in DOMAIN NumericLiterals \cup {""}}

SpecGroupSum(rows, column, label, yColumn) ==
  SpecSumOver(SpecNumeric(rows, column, label, yColumn),
              [i \in 1..Len(rows) |->
                 IF yColumn \in DOMAIN rows[i] /\ rows[i][yColumn] \in DOMAIN NumericLiterals
                 THEN NumericLiterals[rows[i][yColumn]] ELSE 0])

\* v is the mean of the group's numbers rounded to hundredths (halves up), or
\* 0 for a group without numbers
SpecIsGroupAverage(v, rows, column, label, yColumn) ==
  LET n == Cardinality(SpecNumeric(rows, column, label, yColumn))
      total == SpecGroupSum(rows, column, label, yColumn)
  IN IF n = 0 THEN v = 0
     ELSE 2 * n * v <= 200 * total + n /\ 200 * total + n < 2 * n * (v + 1)

\* v is the value expected for a label under an aggregation
SpecIsGroupValue(v, aggregation, rows, column, label, yColumn) ==
  CASE aggregation = "count" -> v = Cardinality(SpecIndices(rows, column, label))
    [] aggregation = "sum" -> v = SpecGroupSum(rows, column, label, yColumn)
    [] aggregation = "average" -> SpecIsGroupAverage(v, rows, column, label, yColumn)

SeqSet(s) == {s[i] : i \in 1..Len(s)}

NoDuplicates(s) == \A i, j \in 1..Len(s) : s[i] = s[j] => i = j

\* The industries of the scenario rows are Tech, Tech, Finance, ""
IsScenario(rows) ==
  /\ Len(rows) = 4
  /\ \A i \in 1..4 : "industry" \in DOMAIN rows[i]
  /\ [i \in 1..4 |-> rows[i].industry] = <<"Tech", "Tech", "Finance", "">>

Categorical == aggIn.recipe.type \in {"bar", "pie"}

Called(op) == aggOut.op = op

-----------------------------------------------------------------------------
(* Claims about the aggregation, checked under SpecCalls *)

\* C1. Grouping total: for a bar or pie recipe with aggregation=count, the
\* values returned by either computeChartData (with any selection or none)
\* sum, the "Other" entry included, to the number of input rows.
C1_GroupingTotal ==
  (/\ Called("computeChartData") \/ Called("computeChartDataApp")
   /\ Categorical
   /\ aggIn.recipe.aggregation = "count")
  => SumSeq(aggOut.out.values) = Len(aggIn.rows)

\* C1 witness: a count over four rows with a selection that collapses groups
C1_Witness ==
  /\ Called("computeChartData")
  /\ Categorical /\ aggIn.recipe.aggregation = "count"
  /\ Len(aggIn.rows) = 4
  /\ aggIn.selected = Some(<<"Tech">>)
  /\ Len(aggOut.out.labels) = 2
  /\ aggOut.out.labels[2] = "Other"

\* The shown part of a merged result: the selected categories that occur in
\* the rows, each once and with its own value
ShownPartIsSelected ==
  LET rows == aggIn.rows
      col == aggIn.recipe.xColumn
      shown == SpecLabels(rows, col) \cap SeqSet(aggIn.selected[1])
      m == Cardinality(shown)
      labels == aggOut.out.labels
      values == aggOut.out.values
  IN /\ Len(labels) >= m /\ Len(values) = Len(labels)
     /\ {labels[j] : j \in 1..m} = shown
     /\ \A j \in 1..m :
          SpecIsGroupValue(values[j], aggIn.recipe.aggregation, rows, col, labels[j],
                           aggIn.recipe.yColumn)

\* The combined value of the categories that occur in the rows and are not selected
CollapsedTotal ==
  LET rows == aggIn.rows
      col == aggIn.recipe.xColumn
      collapsed == SpecLabels(rows, col) \ SeqSet(aggIn.selected[1])
  IN IF aggIn.recipe.aggregation = "count"
     THEN SpecSumOver(collapsed, [l \in collapsed |-> Cardinality(SpecIndices(rows, col, l))])
     ELSE SpecSumOver(collapsed,
                      [l \in collapsed |-> SpecGroupSum(rows, col, l, aggIn.recipe.yColumn)])

\* The result ends with one "Other" entry that carries the collapsed total
EndsWithOther ==
  LET m == Cardinality(SpecLabels(aggIn.rows, aggIn.recipe.xColumn)
                         \cap SeqSet(aggIn.selected[1]))
  IN /\ Len(aggOut.out.labels) = m + 1
     /\ aggOut.out.labels[m + 1] = "Other"
     /\ aggOut.out.values[m + 1] = CollapsedTotal

MergeCase ==
  /\ Called("computeChartData")
  /\ Categorical
  /\ aggIn.recipe.aggregation \in {"count", "sum"}
  /\ aggIn.selected # Null

\* C2 as stated: with count or sum and an explicit selection the result is the
\* selected categories that occur, followed by one "Other" entry carrying the
\* sum of the values of all non-selected categories (read for the rows in
\* which a non-selected category occurs).
C2_OtherAlwaysFollows ==
  (/\ MergeCase
   /\ SpecLabels(aggIn.rows, aggIn.recipe.xColumn) \ SeqSet(aggIn.selected[1]) # {})
  => ShownPartIsSelected /\ EndsWithOther

\* What holds instead of C2: the "Other" entry follows exactly when the
\* combined value of the non-selected categories is greater than zero
\* (line 122); otherwise the result is the selected categories alone. For rows Tech, Tech, Finance, "" and the
\* selection [Tech] the result is labels [Tech, Other], values [2, 2].
C2_OtherMerge ==
  MergeCase =>
    /\ ShownPartIsSelected
    /\ IF CollapsedTotal > 0 THEN EndsWithOther
       ELSE Len(aggOut.out.labels) =
              Cardinality(SpecLabels(aggIn.rows, aggIn.recipe.xColumn)
                            \cap SeqSet(aggIn.selected[1]))
    /\ (/\ IsScenario(aggIn.rows)
        /\ aggIn.recipe.aggregation = "count"
        /\ aggIn.selected = Some(<<"Tech">>))
       => aggOut.out = [labels |-> <<"Tech", "Other">>, values |-> <<2, 2>>]

\* The scenario of C2: the scenario rows with the selection [Tech]
C2_Witness ==
  /\ MergeCase
  /\ IsScenario(aggIn.rows)
  /\ aggIn.recipe.aggregation = "count"
  /\ aggIn.selected = Some(<<"Tech">>)
  /\ aggOut.out.labels = <<"Tech", "Other">>

\* C3. Average non-merge: for aggregation=average and a selection that
\* excludes at least one group of the rows, the result holds exactly the
\* selected groups that occur, each with its own average: no "Other" entry,
\* and no value that an excluded group contributes to.
C3_AverageNonMerge ==
  (/\ Called("computeChartData")
   /\ Categorical
   /\ aggIn.recipe.aggregation = "average"
   /\ aggIn.selected # Null
   /\ SpecLabels(aggIn.rows, aggIn.recipe.xColumn) \ SeqSet(aggIn.selected[1]) # {})
  => /\ ShownPartIsSelected
     /\ Len(aggOut.out.labels) =
          Cardinality(SpecLabels(aggIn.rows, aggIn.recipe.xColumn)
                        \cap SeqSet(aggIn.selected[1]))

\* C3 witness: an average where a group with a positive average is excluded
C3_Witness ==
  /\ Called("computeChartData")
  /\ aggIn.recipe.aggregation = "average"
  /\ aggIn.selected = Some(<<"Unknown">>)
  /\ aggIn.rows = <<Row2("Tech", "2"), Row2("", ""), Row2("Tech", "2")>>
  /\ aggOut.out = [labels |-> <<"Unknown">>, values |-> <<0>>]

\* C4. "Unknown" bucketing: grouping for a bar or pie chart, and listing the
\* categories with getAllCategories, puts every row whose grouping cell is
\* missing or empty under the label "Unknown" and drops no row; for rows
\* Tech, Tech, Finance, "" a count without selection gives (Tech,2),
\* (Finance,1), (Unknown,1) and no "Other".
C4_UnknownBucketing ==
  LET rows == aggIn.rows
      col == aggIn.recipe.xColumn
      unknown == {i \in 1..Len(rows) : col \notin DOMAIN rows[i] \/ rows[i][col] = ""}
      pairs == {<<aggOut.out.labels[j], aggOut.out.values[j]>> :
                  j \in 1..Len(aggOut.out.labels)}
  IN /\ (/\ Called("computeChartData") \/ Called("computeChartDataApp")
         /\ Categorical
         /\ aggIn.recipe.aggregation = "count"
         /\ aggIn.selected = Null)
        => /\ unknown # {} => <<"Unknown", Cardinality(unknown)>> \in pairs
           /\ SeqSet(aggOut.out.labels) = SpecLabels(rows, col)
           /\ NoDuplicates(aggOut.out.labels)
           /\ \A p \in pairs : p[2] = Cardinality(SpecIndices(rows, col, p[1]))
           /\ IsScenario(rows)
                => pairs = {<<"Tech", 2>>, <<"Finance", 1>>, <<"Unknown", 1>>}
     /\ (Called("getAllCategories") /\ Categorical)
        => /\ SeqSet(aggOut.out) = SpecLabels(rows, col)
           /\ NoDuplicates(aggOut.out)
           /\ unknown # {} <=> "Unknown" \in SeqSet(aggOut.out)

\* C4 witness: the scenario rows counted without a selection
C4_Witness ==
  /\ Called("computeChartData")
  /\ Categorical /\ aggIn.recipe.aggregation = "count" /\ aggIn.selected = Null
  /\ IsScenario(aggIn.rows)
  /\ aggOut.out = [labels |-> <<"Tech", "Finance", "Unknown">>, values |-> <<2, 1, 1>>]


-----------------------------------------------------------------------------
(* Claims about the filter state and the selections, checked under Spec *)

\* The rows expected to pass a filter state: the indices of the rows whose
\* cell equals the filter value for every filtered column
SpecPassing(rows, filters) ==
  {i \in 1..Len(rows) :
     \A col \in DOMAIN filters : col \in DOMAIN rows[i] /\ rows[i][col] = filters[col]}

\* result holds exactly the rows of the index set S, in row order
IsSubsequenceAt(result, rows, S) ==
  /\ Len(result) = Cardinality(S)
  /\ \A i \in S : result[Cardinality({j \in S : j <= i})] = rows[i]

\* C5. Filter idempotence: two consecutive clicks on the same plotted bar/pie
\* element, the first made with no filter on its column, leave activeFilters
\* and the result of getFilteredRows() as they were before the first click;
\* with no filters at all getFilteredRows() is again the full row set.
C5_FilterIdempotence ==
  clickRun.n = 2 =>
    /\ activeFilters = clickRun.filters
    /\ getFilteredRows = clickRun.rows
    /\ DOMAIN clickRun.filters = {} => getFilteredRows = allRows

\* C5 witness: the "Tech" bar of the scenario rows clicked twice
C5_Witness ==
  /\ clickRun.n = 2
  /\ clickRun.label = "Tech"
  /\ allRows = ScenarioRows
  /\ lastEvent = "click"
  /\ Len(getFilteredRows) = 4

\* C6. Click transition: a click on label L (not "Other") of a bar/pie chart
\* with xColumn c removes c from activeFilters if activeFilters[c] = L before
\* the click, and otherwise sets activeFilters[c] = L; the filters of all
\* other columns are unchanged.
C6_ClickTransition ==
  [][\A cardIndex \in DOMAIN charts : \A j \in ClickableElements(cardIndex) :
       LET L == charts[cardIndex].data.labels[j]
           c == dashboardRecipes[cardIndex].xColumn
       IN (lastEvent' = "click" /\ L # "Other" /\ ChartClickOn(cardIndex, j))
          => /\ IF c \in DOMAIN activeFilters /\ activeFilters[c] = L
                THEN c \notin DOMAIN activeFilters'
                ELSE c \in DOMAIN activeFilters' /\ activeFilters'[c] = L
             /\ \A d \in (DOMAIN activeFilters \cup DOMAIN activeFilters') \ {c} :
                  /\ d \in DOMAIN activeFilters /\ d \in DOMAIN activeFilters'
                  /\ activeFilters'[d] = activeFilters[d]]_vars

\* C6 witness: a click has set the filter of one column while the filter of
\* another column stays as it was
C6_Witness ==
  /\ lastEvent = "click"
  /\ clickRun.n = 1
  /\ clickRun.label = "Eng"
  /\ clickRun.filters = [industry |-> "Tech"]
  /\ activeFilters = [industry |-> "Tech", role |-> "Eng"]

\* C7. Filter conjunction: getFilteredRows() is, in the original row order,
\* exactly the rows of allRows whose value equals the filter value for every
\* column in activeFilters; with an empty activeFilters it is allRows.
C7_FilterConjunction ==
  /\ IsSubsequenceAt(getFilteredRows, allRows, SpecPassing(allRows, activeFilters))
  /\ DOMAIN activeFilters = {} => getFilteredRows = allRows

\* C7 witness: two filters of which each alone passes more rows than both
C7_Witness ==
  /\ allRows = SurveyRows
  /\ DOMAIN activeFilters = {"industry", "role"}
  /\ activeFilters.industry = "Retail" /\ activeFilters.role = "Ops"
  /\ Len(getFilteredRows) = 1

\* C8 as stated: a click on a label L (not "Other") that a count chart shows
\* with value n, made with no filter on the chart's column, leaves
\* getFilteredRows() with exactly n rows.
C8_ClickFiltersToBar ==
  [][\A cardIndex \in DOMAIN charts : \A j \in ClickableElements(cardIndex) :
       LET L == charts[cardIndex].data.labels[j]
           c == dashboardRecipes[cardIndex].xColumn
       IN (/\ lastEvent' = "click"
           /\ L # "Other"
           /\ dashboardRecipes[cardIndex].aggregation = "count"
           /\ c \notin DOMAIN activeFilters
           /\ ChartClickOn(cardIndex, j))
          => Len(FilterRows(allRows', activeFilters')) = charts[cardIndex].data.values[j]]_vars

\* C9. Selection floor: every card that has a category selection has at
\* least one label in it, and a pill click that would remove the last
\* selected label changes nothing.
C9_SelectionFloor ==
  /\ [](\A cardIndex \in DOMAIN cardCategorySelections :
          Len(cardCategorySelections[cardIndex]) >= 1)
  /\ [][\A cardIndex \in DOMAIN selectors : \A j \in DOMAIN selectors[cardIndex] :
          (/\ cardCategorySelections[cardIndex] = <<selectors[cardIndex][j]>>
           /\ PillClickOn(cardIndex, j))
          => UNCHANGED <<cardCategorySelections, selectors, charts, activeFilters,
                         filterBar>>]_vars

\* C9 witness: the pill of the only selected label has been clicked
C9_Witness ==
  /\ lastEvent = "pillRejected"
  /\ \E cardIndex \in DOMAIN cardCategorySelections :
       Len(cardCategorySelections[cardIndex]) = 1

\* C10. Selections survive cross-filtering: a chart click, a chip removal or
\* a clear-all leaves cardCategorySelections unchanged, and every card is
\* then drawn from its existing selection.
C10_SelectionsSurvive ==
  [][lastEvent' \in {"click", "clickOther", "chip", "clear"}
       => /\ cardCategorySelections' = cardCategorySelections
          /\ \A cardIndex \in DOMAIN charts' :
               charts'[cardIndex].selected =
                 IF cardIndex \in DOMAIN cardCategorySelections
                 THEN <<cardCategorySelections[cardIndex]>> ELSE <<>>]_vars

\* C10 witness: after a chart click a card is drawn from a selection that is
\* not the top 4 of the rows as filtered now
C10_Witness ==
  /\ lastEvent = "click"
  /\ 1 \in DOMAIN cardCategorySelections
  /\ dashboardRecipes[1].xColumn = "industry"
  /\ Len(getAllCategories("industry", getFilteredRows)) > DEFAULT_MAX_CATEGORIES
  /\ SeqSet(cardCategorySelections[1]) #
       SeqSet(Slice(getAllCategories("industry", getFilteredRows), DEFAULT_MAX_CATEGORIES))
  /\ Len(cardCategorySelections[1]) = DEFAULT_MAX_CATEGORIES
  /\ charts[1].selected = <<cardCategorySelections[1]>>

-----------------------------------------------------------------------------
(* Claims about category selection, checked under Spec *)

\* sel holds k distinct labels of the column, ordered by non-increasing row
\* count, and no label outside sel has more rows than a label in it
IsTopByCount(sel, k, rows, column) ==
  LET count(l) == Cardinality(SpecIndices(rows, column, l)) IN
  /\ Len(sel) = k
  /\ NoDuplicates(sel)
  /\ SeqSet(sel) \subseteq SpecLabels(rows, column)
  /\ \A i, j \in 1..k : i < j => count(sel[i]) >= count(sel[j])
  /\ \A l \in SpecLabels(rows, column) \ SeqSet(sel) :
       \A i \in 1..k : count(l) <= count(sel[i])

\* The indices of the filtered rows, for the expected side
SpecFilteredRows == SelectSeq(allRows, LAMBDA row :
  \A col \in DOMAIN activeFilters : col \in DOMAIN row /\ row[col] = activeFilters[col])

\* C11. Default top-4: when the cards are first built, a bar/pie card whose
\* xColumn has more than 4 distinct categories gets as its selection the
\* first 4 categories in descending order of count, and no other card gets a
\* selection; a later selector build (after a pill click) keeps the selection
\* the click produced instead of setting the default again.
C11_DefaultTop4 ==
  /\ [](lastEvent = "pollReady" =>
          \A cardIndex \in DOMAIN dashboardRecipes :
            LET recipe == dashboardRecipes[cardIndex] IN
            IF /\ recipe.type \in {"bar", "pie"}
               /\ Cardinality(SpecLabels(SpecFilteredRows, recipe.xColumn)) > 4
            THEN /\ cardIndex \in DOMAIN cardCategorySelections
                 /\ IsTopByCount(cardCategorySelections[cardIndex], 4, SpecFilteredRows,
                                 recipe.xColumn)
            ELSE cardIndex \notin DOMAIN cardCategorySelections)
  /\ [][\A cardIndex \in DOMAIN selectors : \A j \in DOMAIN selectors[cardIndex] :
          LET cat == selectors[cardIndex][j]
              before == SeqSet(cardCategorySelections[cardIndex])
          IN (lastEvent' = "pill" /\ PillClickOn(cardIndex, j))
             => /\ DOMAIN cardCategorySelections' = DOMAIN cardCategorySelections
                /\ SeqSet(cardCategorySelections'[cardIndex]) =
                     IF cat \in before THEN before \ {cat} ELSE before \cup {cat}]_vars

\* C11 witness: the cards have just been built over the survey rows and the
\* industry card holds its default selection
C11_Witness ==
  /\ lastEvent = "pollReady"
  /\ allRows = SurveyRows
  /\ 1 \in DOMAIN cardCategorySelections
  /\ dashboardRecipes[1].xColumn = "industry"
  /\ cardCategorySelections[1] = <<"Unknown", "Retail", "Tech", "Finance">>

\* C12 as stated: whenever a bar/pie card is drawn and its xColumn has at most
\* 4 distinct categories over the rows as filtered now, the aggregation was
\* called without a selection: every category is shown and there is no
\* "Other" entry.
C12_ThresholdPassThrough ==
  \A cardIndex \in DOMAIN charts :
    LET recipe == dashboardRecipes[cardIndex] IN
    (/\ recipe.type \in {"bar", "pie"}
     /\ Cardinality(SpecLabels(SpecFilteredRows, recipe.xColumn)) <= 4)
    => /\ charts[cardIndex].selected = Null
       /\ SeqSet(charts[cardIndex].data.labels) = SpecLabels(SpecFilteredRows, recipe.xColumn)

\* The part of C12 about what is shown: with at most 4 distinct categories
\* over the rows as filtered now, no drawn bar/pie card has an "Other" entry.
C12_NoOtherUnderThreshold ==
  \A cardIndex \in DOMAIN charts :
    LET recipe == dashboardRecipes[cardIndex] IN
    (/\ recipe.type \in {"bar", "pie"}
     /\ Cardinality(SpecLabels(SpecFilteredRows, recipe.xColumn)) <= 4)
    => ~Includes(charts[cardIndex].data.labels, "Other")

\* C13 as stated: a click on a card's "All" control sets the card's selection
\* to all categories of the column when the selection's size differs from
\* the number of categories, and to the top 4 when the sizes are equal; the
\* categories and the top 4 are those of the rows as filtered at the click.
C13_AllToggle ==
  [][\A cardIndex \in DOMAIN selectors :
       LET column == dashboardRecipes[cardIndex].xColumn
           cats == SpecLabels(SpecFilteredRows, column)
           k == IF Cardinality(cats) < 4 THEN Cardinality(cats) ELSE 4
       IN (lastEvent' = "all" /\ AllToggleOn(cardIndex))
          => IF Len(cardCategorySelections[cardIndex]) # Cardinality(cats)
             THEN /\ SeqSet(cardCategorySelections'[cardIndex]) = cats
                  /\ NoDuplicates(cardCategorySelections'[cardIndex])
             ELSE IsTopByCount(cardCategorySelections'[cardIndex], k, SpecFilteredRows,
                               column)]_vars

-----------------------------------------------------------------------------
(* Claims about what changes the filter state, checked under Spec *)

\* C14. Only filter actions change Filter State: activeFilters changes only
\* in a click on a bar/pie label other than "Other", a chip removal or a
\* clear-all; a click on the "Other" element, a click on a scatter or
\* histogram chart, a pill click, an "All" click and the data fetch and poll
\* steps leave it unchanged.
C14_OnlyFilterActions ==
  [][/\ activeFilters' # activeFilters => lastEvent' \in {"click", "chip", "clear"}
     /\ lastEvent' \in {"clickOther", "clickInert", "pill", "pillRejected", "all", "dataOk",
                        "dataFail", "pollNotReady", "pollError", "timer", "pollEmpty",
                        "pollReady"}
          => activeFilters' = activeFilters
     /\ \A cardIndex \in DOMAIN charts : \A j \in ClickableElements(cardIndex) :
          ChartClickOn(cardIndex, j)
          => /\ dashboardRecipes[cardIndex].type \in {"bar", "pie"}
             /\ charts[cardIndex].data.labels[j] = "Other"
                  => activeFilters' = activeFilters]_vars

\* C14 witness: the "Other" bar has been clicked while a filter is active
C14_Witness ==
  /\ lastEvent = "clickOther"
  /\ activeFilters = [role |-> "Eng"]
  /\ Includes(charts[1].data.labels, "Other")

-----------------------------------------------------------------------------
(* Claims about loading, checked under Spec *)

\* The retries of C15: a poll answered with ready=false leaves exactly one
\* timer more, of 2000 ms, and a poll that fails leaves exactly one timer
\* more, of 3000 ms, however many polls went before.
C15_RetriesScheduled ==
  [][/\ lastEvent' = "pollNotReady"
          => /\ page'.timers = page.timers + 1
             /\ page'.delay = 2000
             /\ page'.pollsInFlight = page.pollsInFlight - 1
     /\ lastEvent' = "pollError"
          => /\ page'.timers = page.timers + 1
             /\ page'.delay = 3000
             /\ page'.pollsInFlight = page.pollsInFlight - 1]_vars

\* C15 as stated: the retries above, and once an answer with ready=true has
\* been seen (the loading indicator is hidden from then on) no poll is in
\* flight or scheduled, and the cards are not built after an earlier
\* ready answer.
C15_PollRetry ==
  /\ C15_RetriesScheduled
  /\ [](page.loadingHidden => page.timers = 0 /\ page.pollsInFlight = 0)
  /\ [][lastEvent' = "pollReady" => ~page.loadingHidden]_vars

\* C16. Empty recipes are terminal: a poll answered with ready=true and
\* recipes absent or empty hides the loading indicator, builds no cards,
\* leaves dashboardRecipes empty and schedules no further poll; the page
\* stays that way.
C16_EmptyRecipesTerminal ==
  /\ [][lastEvent' = "pollEmpty"
          => /\ page'.loadingHidden
             /\ page'.grid = "message"
             /\ charts' = <<>> /\ selectors' = selectors
             /\ cardCategorySelections' = cardCategorySelections
             /\ dashboardRecipes' = dashboardRecipes /\ Len(dashboardRecipes') = 0
             /\ page'.timers = 0 /\ page'.pollsInFlight = 0]_vars
  /\ [](page.grid = "message"
          => /\ page.loadingHidden
             /\ page.timers = 0 /\ page.pollsInFlight = 0
             /\ Len(dashboardRecipes) = 0 /\ charts = <<>>)

\* C16 witness: the rows are loaded and the poll was answered without recipes
C16_Witness ==
  /\ lastEvent = "pollEmpty"
  /\ allRows = SurveyRows
  /\ page.grid = "message" /\ page.loadingHidden
  /\ dashboardRecipes = <<>>

\* The plotted series of a chart hold no point
EmptySeries(chart) ==
  CASE chart.type \in {"bar", "pie"} -> chart.data = [labels |-> <<>>, values |-> <<>>]
    [] chart.type = "scatter" -> chart.data = [x |-> <<>>, y |-> <<>>]
    [] chart.type = "histogram" -> chart.data = [values |-> <<>>]

\* C17. Row-fetch failure is non-fatal: when the fetch of /api/data fails,
\* allRows stays the empty sequence and the first poll is issued; from then
\* on getFilteredRows() is empty, every card that is built is drawn with
\* empty series, and no card gets a category selection or selector.
C17_RowFetchFailure ==
  /\ [][lastEvent' = "dataFail"
          => /\ allRows' = <<>>
             /\ page'.pollsInFlight = 1]_vars
  /\ [](page.dataFetch = "failed"
          => /\ allRows = <<>>
             /\ getFilteredRows = <<>>
             /\ DOMAIN cardCategorySelections = {} /\ DOMAIN selectors = {}
             /\ page.grid = "cards" => Len(charts) = Len(dashboardRecipes)
             /\ \A cardIndex \in DOMAIN charts : EmptySeries(charts[cardIndex]))

\* C17 witness: the fetch failed and four cards were then built and drawn
C17_Witness ==
  /\ page.dataFetch = "failed"
  /\ page.grid = "cards"
  /\ Len(charts) = 4
  /\ \A cardIndex \in DOMAIN charts : EmptySeries(charts[cardIndex])

-----------------------------------------------------------------------------
(* Claims about numeric coercion, checked under SpecCalls *)

\* The rows of a group whose value cell is present and holds a number
SpecStrictNumeric(rows, column, label, yColumn) ==
  {i \in SpecIndices(rows, column, label) :
     yColumn \in DOMAIN rows[i] /\ rows[i][yColumn] \in DOMAIN NumericLiterals}

\* v is the value of a group computed from the rows in the index set S only
SpecValueOver(v, aggregation, S, total) ==
  LET n == Cardinality(S) IN
  CASE aggregation = "sum" -> v = total
    [] aggregation = "average" ->
         IF n = 0 THEN v = 0
         ELSE 2 * n * v <= 200 * total + n /\ 200 * total + n < 2 * n * (v + 1)

\* C18 as stated: for average and sum a group's value is computed from the
\* rows whose yColumn cell is present and numeric only; a row whose cell is
\* missing, empty or not a number adds nothing to the sum and is not counted
\* in the denominator of the average; a group without such a row has the
\* average 0.
C18_NumericExclusion ==
  (/\ Called("computeChartData") \/ Called("computeChartDataApp")
   /\ Categorical
   /\ aggIn.recipe.aggregation \in {"average", "sum"})
  => \A j \in 1..Len(aggOut.out.labels) :
       LET label == aggOut.out.labels[j]
           rows == aggIn.rows
           col == aggIn.recipe.xColumn
           y == aggIn.recipe.yColumn
       IN label # "Other"
          => SpecValueOver(aggOut.out.values[j], aggIn.recipe.aggregation,
                           SpecStrictNumeric(rows, col, label, y),
                           SpecGroupSum(rows, col, label, y))

\* What holds instead: the same with an empty cell read as the number 0, so
\* that it is counted in the denominator of the average
C18_ExclusionButEmptyCells ==
  (/\ Called("computeChartData") \/ Called("computeChartDataApp")
   /\ Categorical
   /\ aggIn.recipe.aggregation \in {"average", "sum"})
  => \A j \in 1..Len(aggOut.out.labels) :
       LET label == aggOut.out.labels[j]
           rows == aggIn.rows
           col == aggIn.recipe.xColumn
           y == aggIn.recipe.yColumn
       IN label # "Other"
          => SpecValueOver(aggOut.out.values[j], aggIn.recipe.aggregation,
                           SpecNumeric(rows, col, label, y),
                           SpecGroupSum(rows, col, label, y))

-----------------------------------------------------------------------------
(* Claims about the chat endpoint, checked under SpecChat *)

\* The handler has worked through a reply of the model
ReplyHandled == chat.phase = "done" /\ "blocks" \in DOMAIN chat.modelReply

TheResponse == chat.responses[1]

\* C19 as stated: when the evaluation of a compute expression or of a chart
\* spec of the reply throws, the request is still answered with a success
\* status, the error is logged, the computed result is not in the reply, and
\* the chart field of the answer is null.
C19_EvaluationErrorsContained ==
  (ReplyHandled /\ chat.threw # {})
  => /\ Len(chat.responses) = 1
     /\ TheResponse.status = 200
     /\ Len(chat.log) >= Cardinality(chat.threw)
     /\ (\E t \in chat.threw : t[1] = "compute") => TheResponse.body.reply.result = "none"
     /\ (\E t \in chat.threw : t[1] = "chart") => TheResponse.body.chart = Null

\* No expression of the reply throws a value that has no properties
ThrowsErrorObjectsOnly ==
  \A i \in DOMAIN chat.modelReply.blocks :
    LET block == chat.modelReply.blocks[i] IN
    /\ block.kind = "compute" => block.eval # "throwsNull"
    /\ block.kind = "chart" => block.labels # "throwsNull" /\ block.values # "throwsNull"

\* What holds instead, for throws of Error objects: the answer has a success
\* status, every throw is logged, a compute expression that threw leaves the
\* reply without a computed result, and the chart of the answer is null or
\* the fully evaluated chart of a block that did not throw.
C19_ErrorObjectsContained ==
  (ReplyHandled /\ chat.threw # {} /\ ThrowsErrorObjectsOnly)
  => /\ Len(chat.responses) = 1
     /\ TheResponse.status = 200
     /\ Len(chat.log) >= Cardinality(chat.threw)
     /\ \A j \in DOMAIN chat.log : chat.log[j] \in {"Compute error", "Chart eval error"}
     /\ (\E t \in chat.threw : t[1] = "compute") => TheResponse.body.reply.result = "none"
     /\ chat.variant = "server.js" =>
          \/ TheResponse.body.chart = Null
          \/ LET chart == TheResponse.body.chart[1] IN
             /\ <<"chart", chart.block>> \notin chat.threw
             /\ chart.labels = "array" /\ chart.values = "array"

-----------------------------------------------------------------------------
(* Claims about the shape of the aggregation's output, checked under SpecCalls *)

\* C21. Output ordering: for a bar or pie recipe the shown labels returned by
\* computeChartData are in descending order of group size over the input
\* rows, whatever the order of the labels in the selection; values[i] is the
\* value of labels[i]; an "Other" entry, when present, is the last element.
C21_OutputOrdering ==
  (Called("computeChartData") /\ Categorical /\ aggIn.recipe.aggregation # "none")
  => LET labels == aggOut.out.labels
         values == aggOut.out.values
         rows == aggIn.rows
         col == aggIn.recipe.xColumn
         size(l) == Cardinality(SpecIndices(rows, col, l))
     IN /\ Len(values) = Len(labels)
        /\ \A i \in 1..Len(labels) : labels[i] = "Other" => i = Len(labels)
        /\ \A i, j \in 1..Len(labels) :
             (i < j /\ labels[j] # "Other") => size(labels[i]) >= size(labels[j])
        /\ \A i \in 1..Len(labels) :
             labels[i] # "Other"
             => SpecIsGroupValue(values[i], aggIn.recipe.aggregation, rows, col, labels[i],
                                 aggIn.recipe.yColumn)

\* C21 witness: the selection names the smaller group first, the rows hold
\* it first, and the result has the larger group first
C21_Witness ==
  /\ Called("computeChartData")
  /\ Categorical /\ aggIn.recipe.aggregation = "count"
  /\ aggIn.selected = Some(<<"Finance", "Tech">>)
  /\ Len(aggIn.rows) = 4
  /\ aggIn.rows[1] = [industry |-> "Finance"]
  /\ aggOut.out = [labels |-> <<"Tech", "Finance", "Other">>, values |-> <<2, 1, 1>>]

\* C22 as stated: for aggregation=sum and a selection that excludes at least
\* one group of the rows, the output ends with an "Other" entry carrying the
\* combined sum of the excluded groups whenever that sum is not zero, and has
\* no "Other" entry when it is zero.
C22_OtherForSums ==
  (/\ Called("computeChartData")
   /\ Categorical
   /\ aggIn.recipe.aggregation = "sum"
   /\ aggIn.selected # Null
   /\ SpecLabels(aggIn.rows, aggIn.recipe.xColumn) \ SeqSet(aggIn.selected[1]) # {})
  => IF CollapsedTotal # 0 THEN EndsWithOther
     ELSE ~Includes(aggOut.out.labels, "Other")

-----------------------------------------------------------------------------
(* Claims about two cards with selectors, checked under SpecSelectors *)

\* C23. Pill toggle effect: a click on the pill of label L on card k changes
\* only card k's selection and only by L: L is appended at the end if it was
\* absent, removed (the rest keeping its order) if it was present and the
\* selection had more than one label, and nothing changes otherwise; the
\* selections of the other cards and activeFilters are unchanged; no
\* selection ever holds a label twice.
C23_PillToggle ==
  /\ [](\A k \in DOMAIN cardCategorySelections : NoDuplicates(cardCategorySelections[k]))
  /\ [][\A k \in DOMAIN selectors : \A j \in DOMAIN selectors[k] :
          LET L == selectors[k][j]
              before == cardCategorySelections[k]
          IN PillClickOn(k, j)
             => /\ DOMAIN cardCategorySelections' = DOMAIN cardCategorySelections
                /\ \A other \in DOMAIN cardCategorySelections \ {k} :
                     cardCategorySelections'[other] = cardCategorySelections[other]
                /\ activeFilters' = activeFilters
                /\ cardCategorySelections'[k] =
                     IF L \notin SeqSet(before) THEN before \o <<L>>
                     ELSE IF Len(before) > 1 THEN SelectSeq(before, LAMBDA c : c # L)
                     ELSE before]_vars

\* C23 witness: a label has been appended to the second card's selection
\* while the first card holds a selection of its own and a filter is active
C23_Witness ==
  /\ lastEvent = "pill"
  /\ activeFilters = [industry |-> "Retail"]
  /\ DOMAIN cardCategorySelections = {1, 2}
  /\ cardCategorySelections[1] = <<"Unknown", "Tech", "Finance">>
  /\ cardCategorySelections[2] = <<"Unknown", "Retail", "Tech", "Finance", "Health">>

-----------------------------------------------------------------------------
(* Claims about what the page shows, checked under Spec *)

\* C24. Active-filter highlighting: whenever column c has a filter value v,
\* every bar and pie chart on c draws v in its palette colour and every other
\* shown label dimmed; the "Other" entry always has the fixed neutral colour,
\* which is no palette colour.
C24_Highlighting ==
  /\ OTHER_COLOR \notin SeqSet(COLORS) /\ DIMMED_COLOR \notin SeqSet(COLORS)
  /\ \A cardIndex \in DOMAIN charts :
       LET c == dashboardRecipes[cardIndex].xColumn
           chart == charts[cardIndex]
       IN chart.type \in {"bar", "pie"}
          => /\ Len(chart.colors) = Len(chart.data.labels)
             /\ \A j \in DOMAIN chart.data.labels :
                  LET label == chart.data.labels[j] IN
                  /\ label = "Other" => chart.colors[j] = "#D0D5E0"
                  /\ (label # "Other" /\ c \in DOMAIN activeFilters)
                       => IF label = activeFilters[c]
                          THEN chart.colors[j] = COLORS[((j - 1) % 10) + 1]
                          ELSE chart.colors[j] = "#e0e3ec"

\* C24 witness: with the filter role = Eng the role pie shows Eng in the
\* first palette colour and the industry bars end with a neutral "Other"
C24_Witness ==
  /\ activeFilters = [role |-> "Eng"]
  /\ Len(charts) = 2
  /\ charts[2].type = "pie" /\ charts[2].data.labels = <<"Eng">>
  /\ charts[2].colors = <<"#4C78A8">>
  /\ charts[1].type = "bar"
  /\ charts[1].data.labels[Len(charts[1].data.labels)] = "Other"
  /\ charts[1].colors[Len(charts[1].colors)] = "#D0D5E0"

\* On a chart of a filtered column no label other than the filter value is
\* ever shown, so the dimmed colour is never drawn
C24_NothingToDim ==
  \A cardIndex \in DOMAIN charts :
    LET c == dashboardRecipes[cardIndex].xColumn IN
    (charts[cardIndex].type \in {"bar", "pie"} /\ c \in DOMAIN activeFilters)
    => SeqSet(charts[cardIndex].data.labels) \subseteq {activeFilters[c], "Other"}

\* C25. Filter-chip summary: the filter bar is hidden exactly when
\* activeFilters is empty and, when visible, shows exactly one chip per active
\* column with that column's current value; removing a chip deletes only that
\* column's filter, and clear-all empties activeFilters so that
\* getFilteredRows() returns all rows.
C25_FilterChips ==
  /\ [](/\ filterBar.hidden <=> (DOMAIN activeFilters = {})
        /\ ~filterBar.hidden
             => /\ \A col \in DOMAIN activeFilters :
                     <<col, activeFilters[col]>> \in filterBar.chips
                /\ \A chip \in filterBar.chips :
                     /\ chip[1] \in DOMAIN activeFilters
                     /\ chip[2] = activeFilters[chip[1]]
                /\ Cardinality(filterBar.chips) = Cardinality(DOMAIN activeFilters))
  /\ [][\A col \in DOMAIN activeFilters :
          (lastEvent' = "chip" /\ ChipRemoveOn(col))
          => /\ DOMAIN activeFilters' = DOMAIN activeFilters \ {col}
             /\ \A d \in DOMAIN activeFilters' : activeFilters'[d] = activeFilters[d]]_vars
  /\ [][(lastEvent' = "clear" /\ ClearFilters)
          => /\ DOMAIN activeFilters' = {}
             /\ FilterRows(allRows', activeFilters') = allRows'
             /\ filterBar'.hidden]_vars

\* C25 witness: one of two filters was removed by its chip and the bar shows
\* the chip of the other one only
C25_Witness ==
  /\ lastEvent = "chip"
  /\ activeFilters = [role |-> "Eng"]
  /\ filterBar = [hidden |-> FALSE, chips |-> {<<"role", "Eng">>}]
  /\ Len(getFilteredRows) < Len(allRows)

\* C25 second witness: clear-all after two filters leaves a hidden bar and
\* all rows
C25_WitnessCleared ==
  /\ lastEvent = "clear"
  /\ Cardinality(filterBar.chips) = 2
  /\ filterBar.hidden
  /\ getFilteredRows = allRows /\ Len(allRows) > 0

\* C26. A rendered categorical chart always shows a real category: for each
\* bar/pie card with a category selection and non-empty filtered rows, at
\* least one selected label is among the chart's shown labels, so the chart
\* is neither empty nor the "Other" entry alone.
C26_RealCategoryShown ==
  \A cardIndex \in DOMAIN charts :
    (/\ charts[cardIndex].type \in {"bar", "pie"}
     /\ Get(cardCategorySelections, cardIndex) # Undefined
     /\ Get(cardCategorySelections, cardIndex) # Null
     /\ Len(getFilteredRows) > 0)
    => /\ \E j \in DOMAIN charts[cardIndex].data.labels :
            Includes(cardCategorySelections[cardIndex], charts[cardIndex].data.labels[j])
       /\ charts[cardIndex].data.labels # <<>>
       /\ charts[cardIndex].data.labels # <<"Other">>

\* C27. At most one poll outstanding: at every moment at most one dashboard
\* poll is either scheduled by a timer or awaiting its response.
C27_OnePollOutstanding ==
  /\ page.pollsInFlight \in {0, 1}
  /\ page.timers \in {0, 1}
  /\ page.pollsInFlight + page.timers <= 1

\* C27 witness: a retry poll, started by the timer of an earlier poll, awaits
\* its response and no timer is pending
C27_Witness ==
  /\ lastEvent = "timer"
  /\ page.pollsInFlight = 1
  /\ page.timers = 0

\* C28. Rows before charts: the first dashboard poll is issued only after the
\* /api/data fetch has settled (succeeded or failed), so the cards and the
\* default category selections are never computed while the row fetch is
\* still in flight.
C28_RowsBeforeCharts ==
  /\ [](page.dataFetch = "pending"
          => /\ page.pollsInFlight = 0 /\ page.timers = 0
             /\ charts = <<>> /\ DOMAIN cardCategorySelections = {}
             /\ page.grid = "empty")
  /\ [][page'.pollsInFlight > page.pollsInFlight
          => page'.dataFetch \in {"done", "failed"}]_vars
  /\ [][(lastEvent' = "pollReady" /\ PollReady)
          => page.dataFetch \in {"done", "failed"}]_vars

\* C28 witness: the rows have arrived and the first poll is awaiting its
\* response
C28_Witness ==
  /\ lastEvent = "dataOk"
  /\ page.dataFetch = "done"
  /\ Len(allRows) > 0
  /\ page.pollsInFlight = 1
  /\ charts = <<>>

-----------------------------------------------------------------------------
(* Claims about the dashboard generation, checked under SpecDashboard and
   FairDashboard *)

\* C29. Server ready flag: /api/dashboard reports ready=false with an empty
\* recipe list until generateDashboard finishes; dashboardReady goes from
\* false to true exactly once and never back; after a failed generation or an
\* unparsable model reply it is true with an empty recipe list, and no
\* response ever has ready=false together with a non-empty recipe list.
C29_ReadyFlag ==
  /\ [](server.generation = "running"
          => dashboardResponse(server) = [recipes |-> JsonArray(<<>>), ready |-> FALSE])
  /\ [][server.dashboardReady => server'.dashboardReady]_vars
  /\ [][(~server.dashboardReady /\ server'.dashboardReady)
          => (server.generation = "running" /\ server'.generation # "running")]_vars
  /\ [](server.generation = "failed"
          => dashboardResponse(server) = [recipes |-> JsonArray(<<>>), ready |-> TRUE])
  /\ [](~dashboardResponse(server).ready
          => dashboardResponse(server).recipes = JsonArray(<<>>))

\* The part of C29 about the flag alone: not ready exactly while the
\* generation runs, never withdrawn, and never not-ready with recipes
C29_FlagOnly ==
  /\ [](server.dashboardReady <=> server.generation # "running")
  /\ [][server.dashboardReady => server'.dashboardReady]_vars
  /\ [](~dashboardResponse(server).ready
          => dashboardResponse(server).recipes = JsonArray(<<>>))

\* A generation that ended in its catch and left null as the recipes
C29_FailedWithNull ==
  /\ server.generation = "failed"
  /\ dashboardResponse(server) = [recipes |-> JsonNull, ready |-> TRUE]

\* The page has stopped polling with the loading indicator hidden and either
\* the cards or the "No charts were generated" message in the grid
Settled ==
  /\ page.pollsInFlight = 0 /\ page.timers = 0
  /\ page.loadingHidden
  /\ page.grid \in {"cards", "message"}

\* C30. Dashboard eventually settles: if the generation call eventually
\* returns and fetches of /api/dashboard eventually succeed, the page
\* eventually stops polling, having built the cards or shown the "No charts
\* were generated" message, with the loading indicator hidden.
C30_EventuallySettles == <>[]Settled

\* The page settles whenever the stored recipes are an array or null
C30_SettlesOnArrays ==
  <>(server.generation # "running" /\ server.dashboardRecipes # JsonObject) => <>[]Settled

\* With {} as the recipes the page polls on every 3 s behind an empty grid
C30_PollsOn ==
  /\ server.dashboardRecipes = JsonObject
  /\ lastEvent = "pollBuildThrows"
  /\ page.timers = 1 /\ page.delay = 3000
  /\ page.loadingHidden /\ page.grid = "empty"

-----------------------------------------------------------------------------
(* Claims about the chat box, checked under SpecChatBox *)

\* C31. Chat input lock: the send button and the text input are disabled
\* whenever at least one /api/chat request is in flight, for every
\* interleaving of send clicks, Enter presses and hint clicks, and both are
\* enabled again once no request is in flight.
C31_InputLock ==
  /\ Len(chatBox.pending) > 0 => (chatBox.sendDisabled /\ chatBox.inputDisabled)
  /\ Len(chatBox.pending) = 0 => (~chatBox.sendDisabled /\ ~chatBox.inputDisabled)

\* The part of C31 that holds: both controls are enabled when no request is
\* in flight, and they are always disabled or enabled together
C31_UnlockedWhenIdle ==
  /\ Len(chatBox.pending) = 0 => (~chatBox.sendDisabled /\ ~chatBox.inputDisabled)
  /\ chatBox.sendDisabled <=> chatBox.inputDisabled

\* Two hint questions were sent, one is answered, and the controls are
\* enabled while the other is still in flight
C31_UnlockedInFlight ==
  /\ chatBox.pending = <<"by industry">>
  /\ chatBox.lastMessage = [role |-> "bot", text |-> "reply"]
  /\ ~chatBox.sendDisabled /\ ~chatBox.inputDisabled

-----------------------------------------------------------------------------
(* The two variants of computeChartData compared, under SpecCalls *)

\* The (label, value) pairs of a bar/pie result
Pairs(out) == {<<out.labels[i], out.values[i]>> : i \in 1..Len(out.labels)}

\* C32. Variant agreement: for every bar/pie recipe and row sequence the
\* computeChartData of public/app.js and that of the category-limiting
\* variant called with no selection return the same set of (label, value)
\* pairs; for scatter and histogram recipes they return identical sequences.
C32_VariantAgreement ==
  (\/ Called("computeChartDataApp")
   \/ (Called("computeChartData") /\ aggIn.selected = Null))
  => LET app == computeChartDataApp(aggIn.recipe, aggIn.rows)
         limiting == computeChartData(aggIn.recipe, aggIn.rows, Null)
     IN /\ aggOut.out = IF Called("computeChartDataApp") THEN app ELSE limiting
        /\ IF aggIn.recipe.type \in {"scatter", "histogram"}
           THEN app = limiting
           ELSE /\ Pairs(app) = Pairs(limiting)
                /\ Len(app.labels) = Len(app.values)
                /\ Len(limiting.labels) = Len(limiting.values)
                /\ Len(app.labels) = Len(limiting.labels)
                /\ NoDuplicates(app.labels) /\ NoDuplicates(limiting.labels)

\* C32 witness: a sum over three groups that the two variants return in
\* different orders
C32_Witness ==
  /\ Called("computeChartDataApp")
  /\ aggIn.recipe.type = "bar" /\ aggIn.recipe.aggregation = "sum"
  /\ aggOut.out.labels = <<"Finance", "Tech", "Unknown">>
  /\ computeChartData(aggIn.recipe, aggIn.rows, Null).labels = <<"Tech", "Finance", "Unknown">>
  /\ aggOut.out.values = <<0, -1, 0>>

\* C32 second witness: a scatter call on rows with and without numbers
C32_WitnessScatter ==
  /\ Called("computeChartData") /\ aggIn.selected = Null
  /\ aggIn.recipe.type = "scatter"
  /\ aggOut.out.y = <<[nan |-> FALSE, n |-> 2], NaN, [nan |-> FALSE, n |-> 0]>>
  /\ aggOut.out = computeChartDataApp(aggIn.recipe, aggIn.rows)

====
